---- MODULE Spec2Model ----
(***************************************************************************)
(* Model of the emission-intensity projection engine of ITR                *)
(* (src/ITR/data/base_providers.py).                                       *)
(*                                                                         *)
(* Quantities are integers: a magnitude counted in units of the model's    *)
(* resolution, all in one common unit of measure.  Arithmetic has the      *)
(* meaning it has over the reals; a result that is not a whole number of   *)
(* resolution units is rounded down.  Floating-point rounding error (a few *)
(* units in the last place of a double) is below the resolution and is not *)
(* represented.                                                            *)
(*                                                                         *)
(* A Python exception is a result record whose field err names the         *)
(* exception; "none" is a normal return.       *)
(***************************************************************************)
EXTENDS Integers, Sequences, FiniteSets, TLC

(***************************************************************************)
(* Projection controls (ITR.configs.ProjectionControls).                    *)
(***************************************************************************)
BASE_YEAR == 2020

\* Length of the projection horizon in years (2050 - 2019 in production).
Horizon == 4

TARGET_YEAR == BASE_YEAR + Horizon

\* CAGR_limit = 1/11.11 = 100/1111
CAGR_limit_num == 100

CAGR_limit_den == 1111

\* Quantity(nan): a missing value inside a series of realizations
NaN == -999999

MaxInt == 2147483647

(***************************************************************************)
(* Real arithmetic on integers.                                            *)
(***************************************************************************)
Min(a, b) == IF a <= b THEN a ELSE b

Max(a, b) == IF a >= b THEN a ELSE b

RECURSIVE Pow(_, _)
\* b ** e for a natural exponent e; saturates at MaxInt
Pow(b, e) ==
    IF e = 0 THEN 1
    ELSE LET q == Pow(b, e - 1)
         IN  IF b = 0 THEN 0
             ELSE IF q > MaxInt \div b THEN MaxInt
             ELSE q * b

\* floor(u * n / d) for u, n >= 0 and d > 0, without forming u * n
MulDiv(u, n, d) == (u \div d) * n + ((u % d) * n) \div d

RECURSIVE MulDivTimes(_, _, _, _)
\* u * (n/d) ** k, rounded down at each step
MulDivTimes(u, n, d, k) ==
    IF k = 0 THEN u ELSE MulDivTimes(MulDiv(u, n, d), n, d, k - 1)

\* floor(N ** (1/p)) for N >= 0, p >= 1, the root being at most hi
IRoot(N, p, hi) ==
    CHOOSE r \in 0..hi : Pow(r, p) <= N /\ (r = hi \/ Pow(r + 1, p) > N)

\* ((n/d) ** (1/p)) ** y * x, rounded down: the value the code computes as
\* cagr_factor ** y * first_value.m with cagr_factor = (n/d) ** (1 / period)
FracPowTimes(n, d, y, p, x) ==
    IF y % p = 0 THEN MulDivTimes(x, n, d, y \div p)
    ELSE IRoot(MulDivTimes(Pow(x, p), n, d, y), p, x)

(***************************************************************************)
(* EITargetProjector._compute_CAGR                                         *)
(* A pd.Series is a function from its index (a set of years) to values;    *)
(* the empty series is the function with the empty domain.                 *)
(***************************************************************************)
EmptySeries == [y \in {} |-> 0]

\* a variant of CAGR_flat that is one entry short
CAGR_flat_short(first_year, first_value, last_year) ==
    [year \in first_year..(last_year - 1) |-> first_value]

\* lines 1370-1372: the slack target, clamped so that the CAGR is zero
CAGR_flat(first_year, first_value, last_year) ==
    [year \in first_year..last_year |-> first_value]

\* a variant of CAGR_blend without the linear term
CAGR_blend_no_linear(first_year, first_value, last_year, last_value) ==
    [year \in first_year..last_year |->
        FracPowTimes(CAGR_limit_num, CAGR_limit_den, year - first_year,
                     last_year - first_year, first_value)]

\* >90% reduction: exponential decay blended with a linear term
CAGR_blend(first_year, first_value, last_year, last_value) ==
    LET period == last_year - first_year
        linear_factor == MulDiv(first_value, CAGR_limit_num, CAGR_limit_den) - last_value
    IN  [year \in first_year..last_year |->
            LET y == year - first_year
            IN  FracPowTimes(CAGR_limit_num, CAGR_limit_den, y, period, first_value)
                  - (linear_factor * y) \div period]

\* <=90% reduction: the CAGR model directly
CAGR_geometric(first_year, first_value, last_year, last_value) ==
    LET period == last_year - first_year
    IN  [year \in first_year..last_year |->
            FracPowTimes(last_value, first_value, year - first_year, period, first_value)]

_compute_CAGR(first_year, first_value, last_year, last_value) ==
    LET period == last_year - first_year
    IN  IF period <= 0 THEN EmptySeries
        \* every comparison with NaN is false: the CAGR model, all NaN
        ELSE IF first_value = NaN \/ last_value = NaN
             THEN [year \in first_year..last_year |-> NaN]
        ELSE IF last_value >= first_value \/ first_value = 0
             THEN CAGR_flat(first_year, first_value, last_year)
        ELSE IF last_value * CAGR_limit_den < first_value * CAGR_limit_num
             THEN CAGR_blend(first_year, first_value, last_year, last_value)
        ELSE CAGR_geometric(first_year, first_value, last_year, last_value)

(***************************************************************************)
(* Records of ITR.interfaces as this module holds them.                    *)
(*   projection / realization : [year, value]                              *)
(*   ICompanyEIProjections    : [set, projections]; set = FALSE is None     *)
(*   ITargetData              : [target_scope, target_type,                *)
(*        target_start_year, target_base_year, target_end_year,            *)
(*        target_base_year_qty, target_reduction_pct (a fraction           *)
(*        [num, den]), netzero_year]                                       *)
(***************************************************************************)
ScopeNames == <<"S1", "S2", "S1S2", "S3", "S1S2S3">>

Scopes == {"S1", "S2", "S1S2", "S3", "S1S2S3"}

\* None, for a year
NoYear == 0

\* None, for a value
NoValue == -888888

\* the initial "no net-zero year" of calculate_nz_target_years
NZ_UNSET == 9999

Proj(y, v) == [year |-> y, value |-> v]

NoCurve == [set |-> FALSE, projections |-> << >>]

Curve(projections) == [set |-> TRUE, projections |-> projections]

\* ITR.isnan
isnan(v) == v = NaN

\* q1 / q2 and q1 * q2 on magnitudes, NaN propagating
QDiv(a, b) == IF isnan(a) \/ isnan(b) THEN NaN ELSE a \div b

QMul(a, b) == IF isnan(a) \/ isnan(b) THEN NaN ELSE a * b

\* q1 >= q2: false when either is NaN
QGe(a, b) == ~isnan(a) /\ ~isnan(b) /\ a >= b

RECURSIVE SortedSeq(_)
\* the members of a set of integers in increasing order
SortedSeq(S) ==
    IF S = {} THEN << >>
    ELSE LET m == CHOOSE x \in S : \A z \in S : x <= z
         IN  <<m>> \o SortedSeq(S \ {m})

SetMax(S) == CHOOSE x \in S : \A z \in S : z <= x

SetMin(S) == CHOOSE x \in S : \A z \in S : x <= z

\* the indices, in order, of the targets of a scope and type
TargetIndices(targets, scope_name, type) ==
    SelectSeq([i \in 1..Len(targets) |-> i],
              LAMBDA i : /\ targets[i].target_scope = scope_name
                         /\ targets[i].target_type = type)

\* the (sector, region) rows of the production benchmark, AnyScope
ProductionRows == {<<"Steel", "Europe">>, <<"Steel", "Global">>, <<"Cement", "Global">>}

\* the (sector, region) rows of the intensity benchmark
IntensityRows == {<<"Steel", "Europe">>, <<"Cement", "Global">>}

(***************************************************************************)
(* EIProjector._get_bounded_projections                                    *)
(***************************************************************************)
_get_bounded_projections(results) ==
    SelectSeq(results, LAMBDA projection : projection.year \in BASE_YEAR..TARGET_YEAR)

\* while model[0].year > BASE_YEAR: prepend (year - 1, same value)
PrependToBaseYear(model) ==
    LET first == model[1]
    IN  IF first.year > BASE_YEAR
        THEN [k \in 1..(first.year - BASE_YEAR) |-> Proj(BASE_YEAR + k - 1, first.value)]
                \o model
        ELSE model

(***************************************************************************)
(* EITargetProjector._order_scope_targets                                  *)
(* targets is company.target_data, idxs the positions in it of the targets *)
(* of one scope and type.  Returns the positions kept, in order, and the   *)
(* target list with the net-zero years the method assigns.                 *)
(***************************************************************************)
\* _order_scope_targets keeping, of the targets with one (end year, start
\* year) pair, the last of the list instead of the first
_order_scope_targets_last(targets, idxs) ==
    IF idxs = << >> THEN [order |-> << >>, targets |-> targets]
    ELSE
    LET idxset == {idxs[k] : k \in 1..Len(idxs)}
        end_years == SortedSeq({targets[i].target_end_year : i \in idxset})
        \* ascending target years and descending start years: the pair kept
        \* for an end year has the latest start year
        start_of(e) == SetMax({targets[i].target_start_year :
                                  i \in {x \in idxset : targets[x].target_end_year = e}})
        \* unique_targets[-1]: the last target of the list with that pair
        pick(e) == SetMax({i \in idxset : /\ targets[i].target_end_year = e
                                           /\ targets[i].target_start_year = start_of(e)})
        unique_scope_targets == [k \in 1..Len(end_years) |-> pick(end_years[k])]
        uniq == {unique_scope_targets[k] : k \in 1..Len(unique_scope_targets)}
        netzero_scope_targets == {i \in uniq : targets[i].netzero_year # NoYear}
        \* sort(key = (-target_start_year, netzero_year)), first element
        latest_start == SetMax({targets[i].target_start_year : i \in netzero_scope_targets})
        netzero_year == SetMin({targets[i].netzero_year :
                                  i \in {x \in netzero_scope_targets :
                                           targets[x].target_start_year = latest_start}})
    IN  [order |-> unique_scope_targets,
         targets |-> IF netzero_scope_targets = {} THEN targets
                     ELSE [i \in 1..Len(targets) |->
                             IF i \in uniq
                             THEN [targets[i] EXCEPT !.netzero_year = netzero_year]
                             ELSE targets[i]]]

_order_scope_targets(targets, idxs) ==
    IF idxs = << >> THEN [order |-> << >>, targets |-> targets]
    ELSE
    LET idxset == {idxs[k] : k \in 1..Len(idxs)}
        end_years == SortedSeq({targets[i].target_end_year : i \in idxset})
        \* ascending target years and descending start years: the pair kept
        \* for an end year has the latest start year
        start_of(e) == SetMax({targets[i].target_start_year :
                                  i \in {x \in idxset : targets[x].target_end_year = e}})
        \* unique_targets[0]: the first target of the list with that pair
        pick(e) == SetMin({i \in idxset : /\ targets[i].target_end_year = e
                                           /\ targets[i].target_start_year = start_of(e)})
        unique_scope_targets == [k \in 1..Len(end_years) |-> pick(end_years[k])]
        uniq == {unique_scope_targets[k] : k \in 1..Len(unique_scope_targets)}
        netzero_scope_targets == {i \in uniq : targets[i].netzero_year # NoYear}
        \* sort(key = (-target_start_year, netzero_year)), first element
        latest_start == SetMax({targets[i].target_start_year : i \in netzero_scope_targets})
        netzero_year == SetMin({targets[i].netzero_year :
                                  i \in {x \in netzero_scope_targets :
                                           targets[x].target_start_year = latest_start}})
    IN  [order |-> unique_scope_targets,
         targets |-> IF netzero_scope_targets = {} THEN targets
                     ELSE [i \in 1..Len(targets) |->
                             IF i \in uniq
                             THEN [targets[i] EXCEPT !.netzero_year = netzero_year]
                             ELSE targets[i]]]

(***************************************************************************)
(* EITargetProjector.calculate_nz_target_years                             *)
(* Returns [err, nz]: nz maps each scope name to its net-zero year, NoYear *)
(* for None.  netzero_year = None makes the comparison raise TypeError.    *)
(***************************************************************************)
RECURSIVE EarliestNz(_, _, _)
\* the loop over targets: the earliest net-zero year or 100%-reduction end year
EarliestNz(targets, k, nz) ==
    IF k > Len(targets) THEN nz
    ELSE LET target == targets[k]
             scope_name == target.target_scope
             nz1 == IF target.netzero_year < nz[scope_name]
                    THEN [nz EXCEPT ![scope_name] = target.netzero_year] ELSE nz
             nz2 == IF target.target_reduction_pct.num = target.target_reduction_pct.den
                        /\ target.target_end_year < nz1[scope_name]
                    THEN [nz1 EXCEPT ![scope_name] = target.target_end_year] ELSE nz1
         IN  EarliestNz(targets, k + 1, nz2)

\* calculate_nz_target_years without lines 1023-1025: the S1S2 year is left
\* as stated when S1S2S3 states an earlier one
calculate_nz_target_years_untightened(targets) ==
    LET S1FromS1S2(nz) == [nz EXCEPT !["S1"] = Min(nz["S1S2"], nz["S1"])]
        S2FromS1S2(nz) == [nz EXCEPT !["S2"] = Min(nz["S1S2"], nz["S2"])]
        S1S2FromParts(nz) ==
            [nz EXCEPT !["S1S2"] = Min(nz["S1S2"], Max(nz["S1"], nz["S2"]))]
        S3FromAll(nz) == [nz EXCEPT !["S3"] = Min(nz["S1S2S3"], nz["S3"])]
        AllFromParts(nz) == [nz EXCEPT !["S1S2S3"] = Max(nz["S1S2"], nz["S3"])]
        OrNone(nz) == [s \in Scopes |-> IF nz[s] < NZ_UNSET THEN nz[s] ELSE NoYear]
    IN  IF \E k \in 1..Len(targets) : targets[k].netzero_year = NoYear
        THEN [err |-> "TypeError", nz |-> [s \in Scopes |-> NoYear]]
        ELSE [err |-> "none",
              nz |-> OrNone(AllFromParts(S3FromAll(S1S2FromParts(S2FromS1S2(
                         S1FromS1S2(
                             EarliestNz(targets, 1, [s \in Scopes |-> NZ_UNSET])))))))]

\* calculate_nz_target_years without lines 1026, 1027 and 1031: S1, S2 and
\* S3 keep the years their own targets state
calculate_nz_target_years_parts_kept(targets) ==
    LET S1S2FromAll(nz) == IF nz["S1S2S3"] < nz["S1S2"]
                           THEN [nz EXCEPT !["S1S2"] = nz["S1S2S3"]] ELSE nz
        S1S2FromParts(nz) ==
            [nz EXCEPT !["S1S2"] = Min(nz["S1S2"], Max(nz["S1"], nz["S2"]))]
        AllFromParts(nz) == [nz EXCEPT !["S1S2S3"] = Max(nz["S1S2"], nz["S3"])]
        OrNone(nz) == [s \in Scopes |-> IF nz[s] < NZ_UNSET THEN nz[s] ELSE NoYear]
    IN  IF \E k \in 1..Len(targets) : targets[k].netzero_year = NoYear
        THEN [err |-> "TypeError", nz |-> [s \in Scopes |-> NoYear]]
        ELSE [err |-> "none",
              nz |-> OrNone(AllFromParts(S1S2FromParts(S1S2FromAll(
                         EarliestNz(targets, 1, [s \in Scopes |-> NZ_UNSET])))))]

\* calculate_nz_target_years without line 1032: the S1S2S3 year is left as
\* stated, whatever S1S2 and S3 have become
calculate_nz_target_years_all_kept(targets) ==
    LET S1S2FromAll(nz) == IF nz["S1S2S3"] < nz["S1S2"]
                           THEN [nz EXCEPT !["S1S2"] = nz["S1S2S3"]] ELSE nz
        S1FromS1S2(nz) == [nz EXCEPT !["S1"] = Min(nz["S1S2"], nz["S1"])]
        S2FromS1S2(nz) == [nz EXCEPT !["S2"] = Min(nz["S1S2"], nz["S2"])]
        S1S2FromParts(nz) ==
            [nz EXCEPT !["S1S2"] = Min(nz["S1S2"], Max(nz["S1"], nz["S2"]))]
        S3FromAll(nz) == [nz EXCEPT !["S3"] = Min(nz["S1S2S3"], nz["S3"])]
        OrNone(nz) == [s \in Scopes |-> IF nz[s] < NZ_UNSET THEN nz[s] ELSE NoYear]
    IN  IF \E k \in 1..Len(targets) : targets[k].netzero_year = NoYear
        THEN [err |-> "TypeError", nz |-> [s \in Scopes |-> NoYear]]
        ELSE [err |-> "none",
              nz |-> OrNone(S3FromAll(S1S2FromParts(S2FromS1S2(
                         S1FromS1S2(S1S2FromAll(
                             EarliestNz(targets, 1, [s \in Scopes |-> NZ_UNSET])))))))]

calculate_nz_target_years(targets) ==
    LET \* lines 1023-1032: what the net-zero years of the scopes imply for
        \* each other, one assignment after the other
        S1S2FromAll(nz) == IF nz["S1S2S3"] < nz["S1S2"]
                           THEN [nz EXCEPT !["S1S2"] = nz["S1S2S3"]] ELSE nz
        S1FromS1S2(nz) == [nz EXCEPT !["S1"] = Min(nz["S1S2"], nz["S1"])]
        S2FromS1S2(nz) == [nz EXCEPT !["S2"] = Min(nz["S1S2"], nz["S2"])]
        S1S2FromParts(nz) ==
            [nz EXCEPT !["S1S2"] = Min(nz["S1S2"], Max(nz["S1"], nz["S2"]))]
        S3FromAll(nz) == [nz EXCEPT !["S3"] = Min(nz["S1S2S3"], nz["S3"])]
        AllFromParts(nz) == [nz EXCEPT !["S1S2S3"] = Max(nz["S1S2"], nz["S3"])]
        \* line 1033: 9999 becomes None
        OrNone(nz) == [s \in Scopes |-> IF nz[s] < NZ_UNSET THEN nz[s] ELSE NoYear]
    IN  IF \E k \in 1..Len(targets) : targets[k].netzero_year = NoYear
        THEN [err |-> "TypeError", nz |-> [s \in Scopes |-> NoYear]]
        ELSE [err |-> "none",
              nz |-> OrNone(AllFromParts(S3FromAll(S1S2FromParts(S2FromS1S2(
                         S1FromS1S2(S1S2FromAll(
                             EarliestNz(targets, 1, [s \in Scopes |-> NZ_UNSET]))))))))]

(***************************************************************************)
(* EITargetProjector._get_ei_projections_from_ei_realizations              *)
(***************************************************************************)
\* for j in range(0, i+1): ... break  -- the first position at or after
\* BASE_YEAR with a value, or i when the loop runs out
FirstUsable(realizations, i) ==
    LET ok == {j \in 1..i : /\ realizations[j].year >= BASE_YEAR
                            /\ ~isnan(realizations[j].value)}
    IN  IF ok = {} THEN i ELSE SetMin(ok)

_get_ei_projections_from_ei_realizations(ei_realizations, i) ==
    LET j == FirstUsable(ei_realizations, i)
    IN  PrependToBaseYear(SubSeq(ei_realizations, j, i))

\* for i in range(len(r)-1, -1, -1): the last position with a value, 0 if none
LastValid(realizations) ==
    LET ok == {i \in 1..Len(realizations) : ~isnan(realizations[i].value)}
    IN  IF ok = {} THEN 0 ELSE SetMax(ok)

(***************************************************************************)
(* EITargetProjector.project_ei_targets                                    *)
(*                                                                         *)
(* company: [historic_data : [set, emissions_intensities, emissions],      *)
(*           projected_intensities : [set, scopes], target_data,           *)
(*           base_year_production]                                         *)
(* production_proj: the company's production projection, a series          *)
(* ei_df: [set, S2]: the benchmark intensities of the company's sector and *)
(*        region; S2 is the S2 row, the empty series when there is none    *)
(*                                                                         *)
(* The state of one scope's processing is the record ls:                   *)
(*   eps              ei_projection_scopes[scope_name]                     *)
(*   target_year, target_ei_value                                          *)
(*   last_prod_value  the local of that name, NoValue while unbound        *)
(*   err              the exception raised, "none" if none                 *)
(***************************************************************************)
\* Q_(target_base_year_m * (1 - target.target_reduction_pct), unit)
TargetValue(target) ==
    MulDiv(target.target_base_year_qty,
           target.target_reduction_pct.den - target.target_reduction_pct.num,
           target.target_reduction_pct.den)

Raise(ls, e) == [ls EXCEPT !.err = e]

\* [ICompanyEIProjection(year, series[year]) for year in range(lo, hi + 1)
\*  if year >= BASE_YEAR]; needs every such year in the index of series
SeriesToProjections(series, lo, hi) ==
    LET years == SortedSeq({y \in lo..hi : y >= BASE_YEAR})
    IN  [k \in 1..Len(years) |-> Proj(years[k], series[years[k]])]

SeriesCovers(series, lo, hi) ==
    \A y \in lo..hi : y >= BASE_YEAR => y \in DOMAIN series

\* lines 1298-1305: the segment is appended to the scope's curve, or starts it
AppendSegment(ls, eps1, model_ei_projections) ==
    IF model_ei_projections = << >> THEN Raise(ls, "IndexError")
    ELSE [ls EXCEPT
            !.target_ei_value = model_ei_projections[Len(model_ei_projections)].value,
            !.eps = IF eps1.set
                    THEN Curve(eps1.projections \o model_ei_projections)
                    ELSE Curve(_get_bounded_projections(
                                   PrependToBaseYear(model_ei_projections)))]

\* lines 1164-1214: one intensity target
ProjectIntensityTarget(target, ls, company, scope_name) ==
    LET ei_realizations ==
            IF ~company.historic_data.set THEN << >>
            ELSE company.historic_data.emissions_intensities[scope_name]
        i == LastValid(ei_realizations)
        from_curve == ls.eps.set
        from_target == ~from_curve /\ ei_realizations = << >>
        tail == ls.eps.projections[Len(ls.eps.projections)]
        last_ei_year ==
            IF from_curve THEN tail.year
            ELSE IF from_target THEN target.target_base_year
            ELSE IF i = 0 THEN ei_realizations[1].year
            ELSE ei_realizations[i].year
        last_ei_value ==
            IF from_curve THEN tail.value
            ELSE IF from_target THEN target.target_base_year_qty
            ELSE IF i = 0 THEN NaN
            ELSE ei_realizations[i].value
        skip_first_year == IF from_curve \/ (~from_target /\ i > 0) THEN 1 ELSE 0
        eps1 == IF from_curve \/ from_target \/ i = 0 THEN ls.eps
                ELSE Curve(_get_bounded_projections(
                         _get_ei_projections_from_ei_realizations(ei_realizations, i)))
        target_year == target.target_end_year
        target_ei_value == TargetValue(target)
        CAGR == _compute_CAGR(last_ei_year, last_ei_value, target_year, target_ei_value)
        lo == last_ei_year + skip_first_year
        \* the locals last_ei_year and last_ei_value the target was solved from
        Anchored(l) ==
            IF l.err # "none" THEN l
            ELSE [l EXCEPT !.anchors =
                     Append(@, [curve |-> ls.eps, last_ei_year |-> last_ei_year,
                                last_ei_value |-> last_ei_value,
                                last_em_value |-> NoValue, first_year |-> lo])]
    IN  Anchored(
        IF from_curve /\ ls.eps.projections = << >> THEN Raise(ls, "IndexError")
        ELSE IF ~from_curve /\ ~from_target /\ last_ei_year < target.target_base_year
             THEN Raise([ls EXCEPT !.eps = eps1], "ValueError")
        ELSE IF QGe(target_ei_value, last_ei_value)
             \* already achieved: aim for the next one
             THEN [ls EXCEPT !.eps = eps1, !.target_year = last_ei_year,
                             !.target_ei_value = last_ei_value]
        ELSE IF ~SeriesCovers(CAGR, lo, target_year)
             THEN Raise([ls EXCEPT !.eps = eps1], "KeyError")
        ELSE AppendSegment([ls EXCEPT !.eps = eps1, !.target_year = target_year],
                           eps1, SeriesToProjections(CAGR, lo, target_year)))

\* lines 1216-1292: one absolute target, switched to intensity with the
\* benchmark production projection
ProjectAbsoluteTarget(target, ls, company, production_proj, scope_name) ==
    LET em_realizations ==
            IF ~company.historic_data.set THEN << >>
            ELSE company.historic_data.emissions[scope_name]
        i == LastValid(em_realizations)
        j == FirstUsable(em_realizations, i)
        from_curve == ls.eps.set
        from_target == ~from_curve /\ em_realizations = << >>
        from_history == ~from_curve /\ ~from_target /\ i > 0
        tail == ls.eps.projections[Len(ls.eps.projections)]
        last_ei_year ==
            IF from_curve THEN tail.year
            ELSE IF from_target THEN target.target_base_year
            ELSE IF i = 0 THEN em_realizations[1].year
            ELSE em_realizations[i].year
        prod_known == last_ei_year \in DOMAIN production_proj
        last_prod_value ==
            IF from_target THEN company.base_year_production
            ELSE IF from_curve \/ from_history THEN production_proj[last_ei_year]
            ELSE ls.last_prod_value
        last_em_value ==
            IF from_curve THEN QMul(tail.value, last_prod_value)
            ELSE IF from_target THEN target.target_base_year_qty
            ELSE IF i = 0 THEN NaN
            ELSE em_realizations[i].value
        last_ei_value ==
            IF from_curve THEN tail.value ELSE QDiv(last_em_value, last_prod_value)
        skip_first_year == IF from_curve \/ from_history THEN 1 ELSE 0
        history_in_index ==
            \A k \in j..i : em_realizations[k].year \in DOMAIN production_proj
        history_ei ==
            [k \in 1..(i - j + 1) |->
                Proj(em_realizations[j + k - 1].year,
                     QDiv(em_realizations[j + k - 1].value,
                          production_proj[em_realizations[j + k - 1].year]))]
        eps1 == IF from_history
                THEN Curve(_get_bounded_projections(PrependToBaseYear(history_ei)))
                ELSE ls.eps
        ls1 == [ls EXCEPT !.eps = eps1, !.last_prod_value = last_prod_value]
        target_year == target.target_end_year
        target_em_value == TargetValue(target)
        CAGR == _compute_CAGR(last_ei_year, last_em_value, target_year, target_em_value)
        lo == last_ei_year + skip_first_year
        \* emissions_projections.loc[idx] / production_proj.loc[idx]
        idx == DOMAIN production_proj \cap {y \in DOMAIN CAGR : lo <= y /\ y <= target_year}
        ei_projections == [y \in idx |-> QDiv(CAGR[y], production_proj[y])]
        model_ei_projections == SeriesToProjections(ei_projections, lo, target_year)
        \* the locals last_ei_year, last_ei_value and last_em_value the target
        \* was solved from
        Anchored(l) ==
            IF l.err # "none" THEN l
            ELSE [l EXCEPT !.anchors =
                     Append(@, [curve |-> ls.eps, last_ei_year |-> last_ei_year,
                                last_ei_value |-> last_ei_value,
                                last_em_value |-> last_em_value, first_year |-> lo])]
    IN  Anchored(
        IF from_curve /\ ls.eps.projections = << >> THEN Raise(ls, "IndexError")
        ELSE IF from_history /\ ~history_in_index THEN Raise(ls, "KeyError")
        ELSE IF (from_curve \/ from_history) /\ ~prod_known THEN Raise(ls, "KeyError")
        ELSE IF ~from_curve /\ ~from_target /\ last_ei_year < target.target_base_year
             THEN Raise(ls1, "AssertionError")
        ELSE IF last_prod_value = NoValue THEN Raise(ls, "UnboundLocalError")
        ELSE IF QGe(target_em_value, last_em_value)
             THEN [ls1 EXCEPT !.target_year = last_ei_year,
                              !.target_ei_value = last_ei_value]
        ELSE IF ~SeriesCovers(ei_projections, lo, target_year)
             THEN Raise(ls1, "KeyError")
        ELSE AppendSegment([ls1 EXCEPT !.target_year = target_year],
                           eps1, model_ei_projections))

\* ProjectTarget with a ValueError for an absolute target that has neither a
\* curve nor historic emissions to start from
ProjectTarget_anchored(target, ls, company, production_proj, scope_name) ==
    IF target.target_type = "intensity"
    THEN ProjectIntensityTarget(target, ls, company, scope_name)
    ELSE IF ~ls.eps.set
            /\ (~company.historic_data.set
                \/ company.historic_data.emissions[scope_name] = << >>)
    THEN Raise(ls, "ValueError")
    ELSE ProjectAbsoluteTarget(target, ls, company, production_proj, scope_name)

ProjectTarget(target, ls, company, production_proj, scope_name) ==
    IF target.target_type = "intensity"
    THEN ProjectIntensityTarget(target, ls, company, scope_name)
    ELSE ProjectAbsoluteTarget(target, ls, company, production_proj, scope_name)

RECURSIVE MergeLoop_absolute_on_tie(_, _, _, _, _, _)
\* the loop with > for >= at line 1135: the absolute target is kept when the
\* two pending targets have the same end year and start year
MergeLoop_absolute_on_tie(scope_targets_intensity, scope_targets_absolute, ls, company, production_proj, scope_name) ==
    IF ls.err # "none" THEN ls
    ELSE IF scope_targets_intensity = << >> /\ scope_targets_absolute = << >> THEN ls
    ELSE
    LET both == scope_targets_intensity # << >> /\ scope_targets_absolute # << >>
        target_i == scope_targets_intensity[1]
        target_a == scope_targets_absolute[1]
        same_end == both /\ target_i.target_end_year = target_a.target_end_year
        use_intensity ==
            IF both
            THEN IF same_end
                 THEN target_i.target_start_year > target_a.target_start_year
                 ELSE target_i.target_end_year < target_a.target_end_year
            ELSE scope_targets_intensity # << >>
        \* the other list loses its head when the end years are equal
        rest_i == IF use_intensity \/ same_end
                  THEN Tail(scope_targets_intensity) ELSE scope_targets_intensity
        rest_a == IF ~use_intensity \/ same_end
                  THEN Tail(scope_targets_absolute) ELSE scope_targets_absolute
        target == IF use_intensity THEN target_i ELSE target_a
        \* lines 1136-1138: warnings.warn, and the target popped at line 1153
        Noted(l) ==
            [l EXCEPT !.projected = Append(@, target),
                      !.discarded =
                          IF same_end
                          THEN Append(@, IF use_intensity THEN target_a ELSE target_i)
                          ELSE @,
                      !.warnings =
                          IF same_end /\ target_i.target_start_year = target_a.target_start_year
                          THEN Append(@, "intensity target overrides absolute target")
                          ELSE @]
    IN  MergeLoop_absolute_on_tie(rest_i, rest_a,
                  ProjectTarget(target, Noted(ls), company, production_proj, scope_name),
                  company, production_proj, scope_name)

RECURSIVE MergeLoop_tie_kept(_, _, _, _, _, _)
\* the loop without the pop(0) of lines 1139 and 1142: of two pending
\* targets with the same end year the one not selected stays pending
MergeLoop_tie_kept(scope_targets_intensity, scope_targets_absolute, ls, company, production_proj, scope_name) ==
    IF ls.err # "none" THEN ls
    ELSE IF scope_targets_intensity = << >> /\ scope_targets_absolute = << >> THEN ls
    ELSE
    LET both == scope_targets_intensity # << >> /\ scope_targets_absolute # << >>
        target_i == scope_targets_intensity[1]
        target_a == scope_targets_absolute[1]
        same_end == both /\ target_i.target_end_year = target_a.target_end_year
        use_intensity ==
            IF both
            THEN IF same_end
                 THEN target_i.target_start_year >= target_a.target_start_year
                 ELSE target_i.target_end_year < target_a.target_end_year
            ELSE scope_targets_intensity # << >>
        rest_i == IF use_intensity
                  THEN Tail(scope_targets_intensity) ELSE scope_targets_intensity
        rest_a == IF ~use_intensity
                  THEN Tail(scope_targets_absolute) ELSE scope_targets_absolute
        target == IF use_intensity THEN target_i ELSE target_a
        Noted(l) ==
            [l EXCEPT !.projected = Append(@, target),
                      !.warnings =
                          IF same_end /\ target_i.target_start_year = target_a.target_start_year
                          THEN Append(@, "intensity target overrides absolute target")
                          ELSE @]
    IN  MergeLoop_tie_kept(rest_i, rest_a,
                  ProjectTarget(target, Noted(ls), company, production_proj, scope_name),
                  company, production_proj, scope_name)

RECURSIVE MergeLoop(_, _, _, _, _, _)
\* lines 1130-1312: while scope_targets_intensity or scope_targets_absolute
MergeLoop(scope_targets_intensity, scope_targets_absolute, ls, company, production_proj, scope_name) ==
    IF ls.err # "none" THEN ls
    ELSE IF scope_targets_intensity = << >> /\ scope_targets_absolute = << >> THEN ls
    ELSE
    LET both == scope_targets_intensity # << >> /\ scope_targets_absolute # << >>
        target_i == scope_targets_intensity[1]
        target_a == scope_targets_absolute[1]
        same_end == both /\ target_i.target_end_year = target_a.target_end_year
        use_intensity ==
            IF both
            THEN IF same_end
                 THEN target_i.target_start_year >= target_a.target_start_year
                 ELSE target_i.target_end_year < target_a.target_end_year
            ELSE scope_targets_intensity # << >>
        \* the other list loses its head when the end years are equal
        rest_i == IF use_intensity \/ same_end
                  THEN Tail(scope_targets_intensity) ELSE scope_targets_intensity
        rest_a == IF ~use_intensity \/ same_end
                  THEN Tail(scope_targets_absolute) ELSE scope_targets_absolute
        target == IF use_intensity THEN target_i ELSE target_a
        \* lines 1136-1138: warnings.warn, and the target popped at line 1153
        Noted(l) ==
            [l EXCEPT !.projected = Append(@, target),
                      !.discarded =
                          IF same_end
                          THEN Append(@, IF use_intensity THEN target_a ELSE target_i)
                          ELSE @,
                      !.warnings =
                          IF same_end /\ target_i.target_start_year = target_a.target_start_year
                          THEN Append(@, "intensity target overrides absolute target")
                          ELSE @]
    IN  MergeLoop(rest_i, rest_a,
                  ProjectTarget(target, Noted(ls), company, production_proj, scope_name),
                  company, production_proj, scope_name)

\* q1 + q2 on magnitudes, NaN propagating
\* q1 + q2 losing the second operand
QAdd_left(a, b) == a

QAdd(a, b) == IF isnan(a) \/ isnan(b) THEN NaN ELSE a + b

\* the entries of a in place of the sums
SumProjections_first(a, b) == [k \in 1..Min(Len(a), Len(b)) |-> a[k]]

\* list(map(ICompanyEIProjection.add, a, b)): position by position, as long as
\* the shorter list; the sum of the two values, for one and the same year
SumProjections(a, b) ==
    [k \in 1..Min(Len(a), Len(b)) |-> Proj(a[k].year, QAdd(a[k].value, b[k].value))]

SameYears(a, b) ==
    \A k \in 1..Min(Len(a), Len(b)) : a[k].year = b[k].year

\* lines 1096-1123: no target of this scope.  go = FALSE is "continue".
NoScopeTargets(st, scope_name, company) ==
    LET ei_realizations == company.historic_data.emissions_intensities[scope_name]
        i == LastValid(ei_realizations)
        stay == [go |-> TRUE, st |-> st, target_year |-> NoYear, target_ei_value |-> NoValue]
    IN  IF ~company.historic_data.set
        THEN [stay EXCEPT !.go = FALSE, !.st.nz[scope_name] = NoYear]
        ELSE IF st.nz[scope_name] = NoYear THEN stay
        ELSE IF /\ company.projected_intensities.set
                /\ company.projected_intensities.scopes[scope_name].set
                /\ ei_realizations = << >>
             THEN [stay EXCEPT !.go = FALSE,
                               !.st.eps[scope_name] =
                                   company.projected_intensities.scopes[scope_name]]
        ELSE IF i = 0 THEN [stay EXCEPT !.go = FALSE]
        ELSE [stay EXCEPT
                !.st.eps[scope_name] =
                    Curve(_get_bounded_projections(
                        _get_ei_projections_from_ei_realizations(ei_realizations, i))),
                !.target_year = ei_realizations[i].year,
                !.target_ei_value = ei_realizations[i].value]

\* the final net-zero target left out: the trajectory ends at the last target
FinalNetZero_skipped(ls, st, scope_name, netzero_year, no_scope_targets) ==
    ls

\* lines 1316-1344: the final net-zero target
FinalNetZero(ls, st, scope_name, netzero_year, no_scope_targets) ==
    LET compound == no_scope_targets /\ scope_name \in {"S1S2", "S1S2S3"}
        a == IF scope_name = "S1S2S3" THEN "S1S2" ELSE "S1"
        b == IF scope_name = "S1S2S3" THEN "S3" ELSE "S2"
        summed == compound /\ st.nz[a] <= netzero_year /\ st.nz[b] <= netzero_year
        span == (1 + ls.target_year)..netzero_year
        sums == SelectSeq(SumProjections(st.eps[a].projections, st.eps[b].projections),
                          LAMBDA ei_sum : ei_sum.year \in span)
        CAGR == _compute_CAGR(ls.target_year, ls.target_ei_value, netzero_year, 0)
        ei_projections ==
            IF summed THEN sums
            ELSE [k \in 1..(netzero_year - ls.target_year) |->
                     Proj(ls.target_year + k, CAGR[ls.target_year + k])]
    IN  IF netzero_year = NoYear THEN ls
        ELSE IF ls.target_year = NoYear THEN Raise(ls, "TypeError")
        ELSE IF netzero_year <= ls.target_year THEN ls
        ELSE IF compound /\ (st.nz[a] = NoYear \/ st.nz[b] = NoYear)
             THEN Raise(ls, "TypeError")
        ELSE IF summed /\ (~st.eps[a].set \/ ~st.eps[b].set) THEN Raise(ls, "ValueError")
        ELSE IF summed /\ ~SameYears(st.eps[a].projections, st.eps[b].projections)
             THEN Raise(ls, "ValueError")
        ELSE [ls EXCEPT
                !.eps = IF ls.eps.set
                        THEN Curve(ls.eps.projections \o ei_projections)
                        ELSE Curve(_get_bounded_projections(ei_projections)),
                !.target_year = netzero_year,
                !.target_ei_value = 0]

\* lines 1345-1350: everything stays flat until TARGET_YEAR
StayFlat(ls) ==
    IF ls.err = "none" /\ ls.eps.set /\ ls.target_year < TARGET_YEAR
    THEN [ls EXCEPT !.eps = Curve(ls.eps.projections \o
                        [k \in 1..(TARGET_YEAR - ls.target_year) |->
                            Proj(ls.target_year + k, ls.target_ei_value)])]
    ELSE ls

\* lines 1082-1350: the body of the loop over scope names
ProjectScope(st, scope_name, company, production_proj) ==
    LET netzero_year == st.nz[scope_name]
        OfType(type) == TargetIndices(st.targets, scope_name, type)
        no_scope_targets == OfType("intensity") = << >> /\ OfType("absolute") = << >>
        \* lines 1316-1350, after the loop over the targets has left ls
        AfterTargets(primed_st, targets, ls) ==
            LET Closed(last) ==
                    [primed_st EXCEPT !.eps[scope_name] = last.eps,
                                      !.targets = targets,
                                      !.last_prod_value = last.last_prod_value,
                                      !.err = last.err]
            IN  Closed(StayFlat(
                    IF ls.err # "none" THEN ls
                    ELSE FinalNetZero(ls, primed_st, scope_name, netzero_year,
                                      no_scope_targets)))
        \* lines 1130-1312, on the targets as _order_scope_targets left them
        OverTargets(primed, ordered_i, ordered_a) ==
            AfterTargets(primed.st, ordered_a.targets,
                MergeLoop([k \in 1..Len(ordered_i.order) |->
                              ordered_a.targets[ordered_i.order[k]]],
                          [k \in 1..Len(ordered_a.order) |->
                              ordered_a.targets[ordered_a.order[k]]],
                          [eps |-> primed.st.eps[scope_name],
                           target_year |-> primed.target_year,
                           target_ei_value |-> primed.target_ei_value,
                           last_prod_value |-> st.last_prod_value,
                           err |-> "none",
                           projected |-> << >>, discarded |-> << >>,
                           warnings |-> << >>,
                           anchors |-> << >>],
                          company, production_proj, scope_name))
        \* lines 1126-1129
        Ordered(primed, ordered_i) ==
            OverTargets(primed, ordered_i,
                        _order_scope_targets(ordered_i.targets, OfType("absolute")))
        Primed(primed) ==
            IF ~primed.go THEN primed.st
            ELSE Ordered(primed, _order_scope_targets(st.targets, OfType("intensity")))
    IN  Primed(IF no_scope_targets THEN NoScopeTargets(st, scope_name, company)
               ELSE [go |-> TRUE, st |-> st,
                     target_year |-> NoYear, target_ei_value |-> NoValue])

RECURSIVE ScopeLoop(_, _, _, _)
\* for scope_name in ei_projection_scopes
ScopeLoop(st, k, company, production_proj) ==
    IF k > Len(ScopeNames) \/ st.err # "none" THEN st
    ELSE ScopeLoop(ProjectScope(st, ScopeNames[k], company, production_proj),
                   k + 1, company, production_proj)

RECURSIVE SynthesizeS2(_, _, _)
\* lines 1062-1077: an S2 intensity target for every S1 target, from the
\* benchmark-aligned S2 intensities s2_ei (positive throughout)
SynthesizeS2(res, k, s2_ei) ==
    IF k > Len(res.targets) \/ res.err # "none" THEN res
    ELSE
    LET target == res.targets[k]
        s2_netzero_year == SetMin({y \in DOMAIN s2_ei :
                                      \A z \in DOMAIN s2_ei : s2_ei[y] <= s2_ei[z]})
        s2_target_base_year == Max(target.target_base_year, SetMin(DOMAIN s2_ei))
        s2_target ==
            [target_scope |-> "S2", target_type |-> "intensity",
             target_start_year |-> target.target_start_year,
             target_base_year |-> s2_target_base_year,
             target_end_year |-> target.target_end_year,
             target_base_year_qty |-> s2_ei[s2_target_base_year],
             target_reduction_pct |->
                 [num |-> s2_ei[s2_target_base_year] - s2_ei[target.target_end_year],
                  den |-> s2_ei[s2_target_base_year]],
             netzero_year |-> s2_netzero_year]
    IN  IF target.target_scope # "S1" THEN SynthesizeS2(res, k + 1, s2_ei)
        ELSE IF s2_target_base_year \notin DOMAIN s2_ei
                  \/ target.target_end_year \notin DOMAIN s2_ei
             THEN [res EXCEPT !.err = "KeyError"]
        ELSE SynthesizeS2([res EXCEPT !.targets = Append(res.targets, s2_target)],
                          k + 1, s2_ei)

\* lines 1054-1077
S2Targets(targets, ei_df) ==
    LET target_scopes == {targets[k].target_scope : k \in 1..Len(targets)}
        res == [err |-> "none", targets |-> targets]
    IN  IF "S1" \in target_scopes /\ "S2" \notin target_scopes
           /\ "S1S2" \notin target_scopes
        THEN IF ~ei_df.set THEN [res EXCEPT !.err = "AttributeError"]
             ELSE IF DOMAIN ei_df.S2 = {} THEN [res EXCEPT !.err = "KeyError"]
             ELSE SynthesizeS2(res, 1, ei_df.S2)
        ELSE res

\* Returns [err, eps, targets, nz]: the exception raised ("none" for a normal
\* return), the scope curves returned, company.target_data as the call leaves
\* it, and nz_target_years as the call had them at its end.
project_ei_targets(company, production_proj, ei_df) ==
    LET ei_projection_scopes == [s \in Scopes |-> NoCurve]
        Raised(e, targets) ==
            [err |-> e, eps |-> ei_projection_scopes,
             targets |-> targets, nz |-> [s \in Scopes |-> NoYear]]
        Left(st) == [err |-> st.err, eps |-> st.eps, targets |-> st.targets, nz |-> st.nz]
        \* lines 1078-1353
        OverScopes(targets, nz_target_years) ==
            IF nz_target_years.err # "none" THEN Raised(nz_target_years.err, targets)
            ELSE Left(ScopeLoop([eps |-> ei_projection_scopes,
                                 nz |-> nz_target_years.nz,
                                 targets |-> targets,
                                 last_prod_value |-> NoValue,
                                 err |-> "none"],
                                1, company, production_proj))
        \* line 1077
        WithTargets(synth) ==
            IF synth.err # "none" THEN Raised(synth.err, synth.targets)
            ELSE OverScopes(synth.targets, calculate_nz_target_years(synth.targets))
    IN  WithTargets(S2Targets(company.target_data, ei_df))

(***************************************************************************)
(* EITrajectoryProjector                                                   *)
(*                                                                         *)
(* The historic panel historic_df is the record [columns, rows]: columns   *)
(* is the sequence of its year columns in the order of the DataFrame, rows *)
(* maps each row key <<company_id, variable, scope>> to its values by      *)
(* year, NaN where the company disclosed nothing.  The module is the one   *)
(* without uncertainties (ITR.HAS_UNCERTAINTIES false).                    *)
(***************************************************************************)
PRODUCTIONS == "Productions"

EMISSIONS == "Emissions"

EMISSIONS_INTENSITIES == "Emissions Intensities"

RECURSIVE Dedupe(_)
\* the members of a sequence, each at its first position
Dedupe(seq) ==
    IF seq = << >> THEN << >>
    ELSE LET front == Dedupe(SubSeq(seq, 1, Len(seq) - 1))
             last == seq[Len(seq)]
         IN  IF \E k \in 1..Len(front) : front[k] = last THEN front
             ELSE Append(front, last)

RECURSIVE Flatten(_)
Flatten(seqs) ==
    IF seqs = << >> THEN << >> ELSE Head(seqs) \o Flatten(Tail(seqs))

\* {r.year: r.value for r in realizations}: the last value given for a year
AsDict(realizations) ==
    [year \in {realizations[k].year : k \in 1..Len(realizations)} |->
        realizations[SetMax({k \in 1..Len(realizations) :
                                realizations[k].year = year})].value]

\* lines 750-773: the records of one company, productions first, then the
\* emissions and the intensities of every scope that has any
CompanyRecords(c) ==
    LET OfScopes(variable, by_scope) ==
            [k \in 1..Len(ScopeNames) |->
                IF by_scope[ScopeNames[k]] = << >> THEN << >>
                ELSE <<[key |-> <<c.company_id, variable, ScopeNames[k]>>,
                        realizations |-> by_scope[ScopeNames[k]]]>>]
    IN  IF ~c.historic_data.set THEN << >>
        ELSE (IF c.historic_data.productions = << >> THEN << >>
              ELSE <<[key |-> <<c.company_id, PRODUCTIONS, "Production">>,
                      realizations |-> c.historic_data.productions]>>)
             \o Flatten(OfScopes(EMISSIONS, c.historic_data.emissions))
             \o Flatten(OfScopes(EMISSIONS_INTENSITIES,
                                 c.historic_data.emissions_intensities))

\* lines 723-748.  Returns [err, columns, rows].
_extract_historic_df(companies) ==
    LET data == Flatten([i \in 1..Len(companies) |-> CompanyRecords(companies[i])])
        columns == Dedupe(Flatten([k \in 1..Len(data) |->
                        [j \in 1..Len(data[k].realizations) |->
                            data[k].realizations[j].year]]))
        years == {columns[k] : k \in 1..Len(columns)}
        row(k) == [year \in years |->
                      IF year \in DOMAIN AsDict(data[k].realizations)
                      THEN AsDict(data[k].realizations)[year] ELSE NaN]
    IN  IF data = << >>
        THEN [err |-> "ValueError: No historic data anywhere",
              columns |-> << >>, rows |-> << >>]
        ELSE [err |-> "none", columns |-> columns,
              rows |-> [key \in {data[k].key : k \in 1..Len(data)} |->
                          row(CHOOSE k \in 1..Len(data) : data[k].key = key)]]

RECURSIVE DeriveScopes_overwriting(_, _, _)
\* DeriveScopes with emissions / production computed before the disclosed
\* intensities are looked at
DeriveScopes_overwriting(c, k, st) ==
    IF k > Len(ScopeNames) THEN st
    ELSE
    LET scope == ScopeNames[k]
        ei_key == <<c.company_id, EMISSIONS_INTENSITIES, scope>>
        emissions_key == <<c.company_id, EMISSIONS, scope>>
        production_key == <<c.company_id, PRODUCTIONS, "Production">>
        derived == [year \in DOMAIN st.rows[emissions_key] |->
                       QDiv(st.rows[emissions_key][year], st.rows[production_key][year])]
    IN  IF emissions_key \in DOMAIN st.rows /\ production_key \in DOMAIN st.rows
        THEN DeriveScopes_overwriting(c, k + 1,
                 [st EXCEPT !.resolved = TRUE,
                            !.rows = [key \in DOMAIN st.rows \cup {ei_key} |->
                                         IF key = ei_key THEN derived ELSE st.rows[key]]])
        ELSE IF ei_key \in DOMAIN st.rows
        THEN DeriveScopes_overwriting(c, k + 1, [st EXCEPT !.resolved = TRUE])
        ELSE DeriveScopes_overwriting(c, k + 1,
                 [st EXCEPT !.missing = Append(st.missing, <<c.company_id, scope>>)])

RECURSIVE DeriveScopes(_, _, _)
\* lines 788-800 for one company: st is [rows, missing, resolved]
DeriveScopes(c, k, st) ==
    IF k > Len(ScopeNames) THEN st
    ELSE
    LET scope == ScopeNames[k]
        ei_key == <<c.company_id, EMISSIONS_INTENSITIES, scope>>
        emissions_key == <<c.company_id, EMISSIONS, scope>>
        production_key == <<c.company_id, PRODUCTIONS, "Production">>
        derived == [year \in DOMAIN st.rows[emissions_key] |->
                       QDiv(st.rows[emissions_key][year], st.rows[production_key][year])]
    IN  IF ei_key \in DOMAIN st.rows
        THEN DeriveScopes(c, k + 1, [st EXCEPT !.resolved = TRUE])
        ELSE IF emissions_key \in DOMAIN st.rows /\ production_key \in DOMAIN st.rows
        THEN DeriveScopes(c, k + 1,
                 [st EXCEPT !.resolved = TRUE,
                            !.rows = [key \in DOMAIN st.rows \cup {ei_key} |->
                                         IF key = ei_key THEN derived ELSE st.rows[key]]])
        ELSE DeriveScopes(c, k + 1,
                 [st EXCEPT !.missing = Append(st.missing, <<c.company_id, scope>>)])

RECURSIVE MissingHistoricEi(_, _, _, _)
MissingHistoricEi(companies, i, rows, missing_data) ==
    IF i > Len(companies) THEN [rows |-> rows, missing_data |-> missing_data]
    ELSE LET st == DeriveScopes(companies[i], 1,
                       [rows |-> rows, missing |-> << >>, resolved |-> FALSE])
         IN  MissingHistoricEi(companies, i + 1, st.rows,
                 IF st.missing # << >> /\ ~st.resolved
                 THEN missing_data \o st.missing ELSE missing_data)

\* the check for missing combinations without the derivation
_compute_missing_historic_ei_underived(companies, historic_df) ==
    LET r == MissingHistoricEi(companies, 1, historic_df.rows, << >>)
    IN  [err |-> IF r.missing_data # << >> THEN "ValueError: Provide" ELSE "none",
         missing_data |-> r.missing_data,
         rows |-> historic_df.rows]

\* the error raised at the first missing combination, not after the loop
_compute_missing_historic_ei_first(companies, historic_df) ==
    LET r == MissingHistoricEi(companies, 1, historic_df.rows, << >>)
    IN  [err |-> IF r.missing_data # << >> THEN "ValueError: Provide" ELSE "none",
         missing_data |-> SubSeq(r.missing_data, 1, 1),
         rows |-> r.rows]

\* lines 778-809.  Returns [err, missing_data, rows]: the panel rows with the
\* derived intensities added, and the company - scope combinations the error
\* message lists.
_compute_missing_historic_ei(companies, historic_df) ==
    LET r == MissingHistoricEi(companies, 1, historic_df.rows, << >>)
    IN  [err |-> IF r.missing_data # << >> THEN "ValueError: Provide" ELSE "none",
         missing_data |-> r.missing_data,
         rows |-> r.rows]

\* ProjectionControls: the winsorization percentiles, in percent, and the
\* bounds of the trend, in thousandths
LOWER_PERCENTILE == 10

UPPER_PERCENTILE == 90

LOWER_DELTA == -100

UPPER_DELTA == 30

\* a ratio that is infinite (a rise from 0)
Infinite == 1000000

RECURSIVE SortValues(_)
\* the members of a sequence of integers in increasing order, repeats kept
SortValues(seq) ==
    IF seq = << >> THEN << >>
    ELSE LET m == SetMin({seq[k] : k \in 1..Len(seq)})
             at == SetMin({k \in 1..Len(seq) : seq[k] = m})
         IN  <<m>> \o SortValues(SubSeq(seq, 1, at - 1) \o SubSeq(seq, at + 1, Len(seq)))

\* Series.quantile(q), linear interpolation, over the values that are not NaN
Quantile(col, pct) ==
    LET sorted == SortValues(SelectSeq(col, LAMBDA v : ~isnan(v)))
        n == Len(sorted)
        lo == ((n - 1) * pct) \div 100
        rem == ((n - 1) * pct) % 100
    IN  IF n = 0 THEN NaN
        ELSE sorted[lo + 1]
               + ((sorted[Min(lo + 2, n)] - sorted[lo + 1]) * rem) \div 100

\* _winsorize with the clip left out
_winsorize_unclipped(col) == col

\* lines 863-896, one column: clipped at its lower and upper percentile
_winsorize(col) ==
    LET lower == Quantile(col, LOWER_PERCENTILE)
        upper == Quantile(col, UPPER_PERCENTILE)
    IN  [k \in 1..Len(col) |->
            IF isnan(col[k]) \/ isnan(lower) THEN col[k]
            ELSE Min(Max(col[k], lower), upper)]

\* _year_on_year_ratio without the rule for a window that crosses zero
_year_on_year_ratio_uncrossed(first, last) ==
    IF first = 0 /\ last = 0 THEN 0
    ELSE IF first = 0 THEN IF last > 0 THEN Infinite ELSE -Infinite
    ELSE (1000 * (last - first)) \div first

\* lines 954-962, in thousandths
_year_on_year_ratio(first, last) ==
    IF first = 0 /\ last = 0 THEN 0
    ELSE IF first >= 0 /\ last <= 0 THEN -1000
    ELSE IF first = 0 THEN Infinite
    ELSE (1000 * (last - first)) \div first

\* DataFrame.median(skipna=True) of one column
Median(values) ==
    LET sorted == SortValues(values)
        n == Len(sorted)
    IN  IF n = 0 THEN NaN
        ELSE IF n % 2 = 1 THEN sorted[(n + 1) \div 2]
        ELSE (sorted[n \div 2] + sorted[n \div 2 + 1]) \div 2

\* _get_trends without the clip to [LOWER_DELTA, UPPER_DELTA]
_get_trends_unclipped(col) ==
    LET windows == {k \in 2..Len(col) : ~isnan(col[k - 1]) /\ ~isnan(col[k])}
        ratios == [j \in 1..Cardinality(windows) |->
                      LET k == SortedSeq(windows)[j]
                      IN  _year_on_year_ratio(col[k - 1], col[k])]
    IN  Median(ratios)

\* lines 903-926, one column: the median of the year-on-year ratios of the
\* rolling windows of two rows, clipped to [LOWER_DELTA, UPPER_DELTA]
_get_trends(col) ==
    LET windows == {k \in 2..Len(col) : ~isnan(col[k - 1]) /\ ~isnan(col[k])}
        ratios == [j \in 1..Cardinality(windows) |->
                      LET k == SortedSeq(windows)[j]
                      IN  _year_on_year_ratio(col[k - 1], col[k])]
        median == Median(ratios)
    IN  IF isnan(median) THEN NaN
        ELSE Min(Max(median, LOWER_DELTA), UPPER_DELTA)

\* value * (1 + trend) ** n, compounded in thousandths of the resolution
Compound(value, trend, n) ==
    IF isnan(value) \/ isnan(trend) THEN NaN
    ELSE MulDivTimes(value * 1000, 1000 + trend, 1000, n) \div 1000

\* col.fillna(method='bfill'), kept only for the years from BASE_YEAR on
Backfilled(col, columns) ==
    [k \in 1..Len(col) |->
        LET later == {j \in k..Len(col) : ~isnan(col[j])}
        IN  IF isnan(col[k]) /\ later # {} /\ columns[k] >= BASE_YEAR
            THEN col[SetMin(later)] ELSE col[k]]

\* _extrapolate_mini filling each NaN forward from the valid value before it
_extrapolate_mini_forward(col, trend) ==
    [k \in 1..Len(col) |->
        LET before == {j \in 1..k : ~isnan(col[j])}
        IN  IF isnan(col[k]) /\ before # {}
            THEN Compound(col[SetMax(before)], trend, k - SetMax(before))
            ELSE col[k]]

\* lines 932-940, one column: every NaN replaced by the last valid value of
\* the column compounded by the trend, once more for each NaN in turn
_extrapolate_mini(col, trend) ==
    LET col_na_idx == {k \in 1..Len(col) : isnan(col[k])}
        valid == {k \in 1..Len(col) : ~isnan(col[k])}
        last_valid == IF valid = {} THEN NaN ELSE col[SetMax(valid)]
    IN  [k \in 1..Len(col) |->
            IF isnan(col[k])
            THEN Compound(last_valid, trend,
                          Cardinality({j \in col_na_idx : j <= k}))
            ELSE col[k]]

\* lines 928-951, one column: the historic rows, then one row for each of
\* projection_years[1:], as [year, value] in the order of the rows
_extrapolate(trend, projection_years, col, columns) ==
    LET historic == _extrapolate_mini(col, trend)
    IN  [k \in 1..Len(col) |-> Proj(columns[k], historic[k])]
        \o [k \in 1..(Len(projection_years) - 1) |->
               Proj(projection_years[k + 1], Compound(historic[Len(historic)], trend, k))]

\* lines 811-851 for one company.  extrapolations maps each intensity row
\* key to its extrapolated rows from BASE_YEAR on.
AddProjectionsToCompany(c, extrapolations) ==
    LET disclosed(scope_name) ==
            c.historic_data.emissions_intensities[scope_name] # << >>
        scope_dfs(scope_name) ==
            extrapolations[<<c.company_id, EMISSIONS_INTENSITIES, scope_name>>]
        own == [s \in Scopes |->
                   IF disclosed(s) THEN Curve(_get_bounded_projections(scope_dfs(s)))
                   ELSE NoCurve]
        s1s2_df == IF own["S1S2"].set THEN scope_dfs("S1S2")
                   ELSE SumProjections(scope_dfs("S1"), scope_dfs("S2"))
        with_s1s2 ==
            IF own["S1"].set /\ own["S2"].set /\ ~own["S1S2"].set
            THEN [own EXCEPT !["S1S2"] = Curve(_get_bounded_projections(s1s2_df))]
            ELSE own
        scope_projections ==
            IF with_s1s2["S1S2"].set /\ with_s1s2["S3"].set /\ ~with_s1s2["S1S2S3"].set
            THEN [with_s1s2 EXCEPT !["S1S2S3"] =
                     Curve(_get_bounded_projections(
                               SumProjections(s1s2_df, scope_dfs("S3"))))]
            ELSE with_s1s2
    IN  [c EXCEPT !.projected_intensities = [set |-> TRUE, scopes |-> scope_projections]]

\* lines 694-710: ghg_s1s2 of a company that has none, from the backfilled
\* S1S2 intensity of BASE_YEAR
BackfillGhg(c, historic_ei_t, columns) ==
    LET idx == <<c.company_id, EMISSIONS_INTENSITIES, "S1S2">>
        at_base == {k \in 1..Len(columns) : columns[k] = BASE_YEAR}
    IN  IF (c.ghg_s1s2 = NoValue \/ isnan(c.ghg_s1s2))
           /\ idx \in DOMAIN historic_ei_t /\ at_base # {}
        THEN [c EXCEPT !.ghg_s1s2 =
                 QMul(historic_ei_t[idx][SetMin(at_base)], c.base_year_production)]
        ELSE c

\* lines 667-721.  Returns [err, missing_data, companies].
project_ei_trajectories(companies) ==
    LET \* lines 711-720, on the backfilled intensities
        Extrapolated(columns, historic_ei_t, with_ghg) ==
            LET max_historic_year == SetMax({columns[k] : k \in 1..Len(columns)})
                projection_years ==
                    [k \in 1..Max(0, TARGET_YEAR + 1 - max_historic_year) |->
                        max_historic_year + k - 1]
                extrapolated_t ==
                    [key \in DOMAIN historic_ei_t |->
                        SelectSeq(_extrapolate(_get_trends(_winsorize(historic_ei_t[key])),
                                               projection_years,
                                               historic_ei_t[key], columns),
                                  LAMBDA row : row.year >= BASE_YEAR)]
            IN  \* pd.concat of no object, when no year is left to project
                IF Len(projection_years) <= 1
                THEN [err |-> "ValueError: No objects to concatenate",
                      missing_data |-> << >>, companies |-> with_ghg]
                ELSE [err |-> "none", missing_data |-> << >>,
                      companies |-> [i \in 1..Len(companies) |->
                                        AddProjectionsToCompany(with_ghg[i],
                                                                extrapolated_t)]]
        \* lines 690-710
        WithGhg(columns, unfilled, historic_ei_t) ==
            Extrapolated(columns, historic_ei_t,
                [i \in 1..Len(companies) |->
                    IF historic_ei_t # unfilled
                    THEN BackfillGhg(companies[i], historic_ei_t, columns)
                    ELSE companies[i]])
        \* lines 679-689
        WithBackfill(columns, unfilled) ==
            WithGhg(columns, unfilled,
                    [key \in DOMAIN unfilled |-> Backfilled(unfilled[key], columns)])
        \* lines 671-677: the intensity rows of the panel
        OverIntensities(columns, rows) ==
            WithBackfill(columns,
                [key \in {x \in DOMAIN rows : x[2] = EMISSIONS_INTENSITIES} |->
                    [k \in 1..Len(columns) |-> rows[key][columns[k]]]])
        WithDerived(historic_df, missing) ==
            IF missing.err # "none"
            THEN [err |-> missing.err, missing_data |-> missing.missing_data,
                  companies |-> companies]
            ELSE OverIntensities(historic_df.columns, missing.rows)
        \* line 670
        OverPanel(historic_df) ==
            IF historic_df.err # "none"
            THEN [err |-> historic_df.err, missing_data |-> << >>,
                  companies |-> companies]
            ELSE WithDerived(historic_df,
                             _compute_missing_historic_ei(companies, historic_df))
    IN  OverPanel(_extract_historic_df(companies))

(***************************************************************************)
(* BaseCompanyDataProvider._validate_projected_trajectories                *)
(*                                                                         *)
(* A company's intensities are magnitudes in its unit ei_metric.  The      *)
(* benchmark's unit is "kg/u"; "t/u" converts to it, "t/MWh" does not.     *)
(***************************************************************************)
BenchmarkMetric == "kg/u"

\* the factor from a unit to BenchmarkMetric, 0 when the dimensions differ
ConversionFactor(ei_metric) ==
    CASE ei_metric = "kg/u" -> 1
      [] ei_metric = "t/u" -> 1000
      [] OTHER -> 0

\* lines 345-369: historic data for a company that has projections only
SynthesizeHistoricData(c) ==
    LET scope_ei ==
            [s \in Scopes |->
                IF c.projected_intensities.scopes[s].set
                THEN SelectSeq(c.projected_intensities.scopes[s].projections,
                               LAMBDA eir : eir.year = BASE_YEAR)
                ELSE << >>]
        scope_em ==
            [s \in Scopes |->
                IF scope_ei[s] = << >> THEN << >>
                ELSE <<Proj(BASE_YEAR, QMul(scope_ei[s][1].value, c.base_year_production))>>]
    IN  [c EXCEPT !.historic_data =
            [set |-> TRUE,
             productions |-> <<Proj(BASE_YEAR, c.base_year_production)>>,
             emissions |-> scope_em,
             emissions_intensities |-> scope_ei]]

\* projections[base_year] of a scope that has a curve without that year
LacksBaseYear(c) ==
    \E s \in Scopes :
        /\ c.projected_intensities.scopes[s].set
        /\ \A k \in 1..Len(c.projected_intensities.scopes[s].projections) :
              c.projected_intensities.scopes[s].projections[k].year # BASE_YEAR

\* the benchmark's unit put on the curves without converting their values
NormalizeMetric_relabelled(c) ==
    LET known == <<c.sector, c.region>> \in IntensityRows
                 \/ <<c.sector, "Global">> \in IntensityRows
        has_curve == \E s \in Scopes : c.projected_intensities.scopes[s].set
    IN  IF ~known \/ ~has_curve \/ ConversionFactor(c.ei_metric) = 0 THEN c
        ELSE [c EXCEPT !.ei_metric = BenchmarkMetric]

\* lines 377-394 for one company: its curves in the benchmark's unit
NormalizeMetric(c) ==
    LET factor == ConversionFactor(c.ei_metric)
        known == <<c.sector, c.region>> \in IntensityRows
                 \/ <<c.sector, "Global">> \in IntensityRows
        has_curve == \E s \in Scopes : c.projected_intensities.scopes[s].set
    IN  IF ~known \/ ~has_curve \/ factor = 0 THEN c
        ELSE [c EXCEPT
                !.ei_metric = BenchmarkMetric,
                !.projected_intensities.scopes =
                    [s \in Scopes |->
                        [set |-> c.projected_intensities.scopes[s].set,
                         projections |->
                            [k \in 1..Len(c.projected_intensities.scopes[s].projections) |->
                                Proj(c.projected_intensities.scopes[s].projections[k].year,
                                     QMul(c.projected_intensities.scopes[s].projections[k].value,
                                          factor))]]]]

\* lines 326-396.  Returns [err, missing_data, companies]: the company
\* objects as the call leaves them, at the positions they were given in (the
\* order of the list returned is kept by the caller, in returned).
_validate_projected_trajectories(companies) ==
    LET positions == 1..Len(companies)
        without_data == {i \in positions : /\ ~companies[i].historic_data.set
                                           /\ ~companies[i].projected_intensities.set}
        without_historic == {i \in positions : ~companies[i].historic_data.set}
        \* the loop stops at the first company whose curve lacks BASE_YEAR
        failing == {i \in without_historic : LacksBaseYear(companies[i])}
        \* lines 377-395
        Normalized(cs) == [i \in positions |-> NormalizeMetric(cs[i])]
        \* lines 372-374
        Merged(synthesized, without_projections, projected) ==
            LET merged ==
                    [i \in positions |->
                        IF synthesized[i].projected_intensities.set THEN synthesized[i]
                        ELSE projected.companies[
                                 CHOOSE k \in 1..Len(without_projections) :
                                     without_projections[k] = i]]
            IN  IF projected.err # "none"
                THEN [err |-> projected.err, missing_data |-> projected.missing_data,
                      companies |-> merged]
                ELSE [err |-> "none", missing_data |-> << >>,
                      companies |-> Normalized(merged)]
        \* lines 370-374
        Projecting(synthesized, without_projections) ==
            IF without_projections = << >>
            THEN [err |-> "none", missing_data |-> << >>,
                  companies |-> Normalized(synthesized)]
            ELSE Merged(synthesized, without_projections,
                        project_ei_trajectories(
                            [k \in 1..Len(without_projections) |->
                                synthesized[without_projections[k]]]))
        \* lines 345-369
        Synthesized(synthesized) ==
            IF failing # {}
            THEN [err |-> "KeyError", missing_data |-> << >>, companies |-> synthesized]
            ELSE Projecting(synthesized,
                            SelectSeq([i \in positions |-> i],
                                      LAMBDA i : ~synthesized[i].projected_intensities.set))
    IN  IF without_data # {}
        THEN [err |-> "ValueError: Provide either", missing_data |-> << >>,
              companies |-> companies]
        ELSE Synthesized(
                 [i \in positions |->
                     IF i \in without_historic /\ (failing = {} \/ i < SetMin(failing))
                     THEN SynthesizeHistoricData(companies[i]) ELSE companies[i]])

(***************************************************************************)
(* State                                                                   *)
(***************************************************************************)
VARIABLES
    pc,              \* position of the driver: "call" before a call, then "done"
    cagr_args,       \* arguments of the call of _compute_CAGR
    cagr_result,     \* the series the call returned
    company,         \* the company record handed to project_ei_targets
    production_proj, \* its production projection
    ei_df,           \* the intensity benchmark rows of its sector and region
    results,         \* what the successive calls of project_ei_targets returned
    _companies,      \* the companies of the provider, in order
    next_company,    \* position in _companies of the company handled next
    ei_bm,           \* the intensity benchmark handed to the batch, or None
    batch_err,       \* the exception the batch call raised, "none" if none
    given,           \* the companies as handed to the trajectory projection
    companies,       \* the same companies, as the call left them
    op,              \* the method called on them, "none" before the call
    traj_err,        \* the exception that call raised, "none" if none
    missing_data,    \* the company - scope combinations its error lists
    returned,        \* the company ids of the list it returned, in its order
    _prod_delta_df,  \* the production benchmark's growth deltas by (sector, region)
    _prod_df,        \* its cumulative growth index, None before construction
    _EI_df,          \* the intensity benchmark's curves by (sector, region, scope)
    company_info_at_base_year, \* the rows of the companies a lookup is called with
    benchmark_df,    \* what the lookup returned
    historic_intensities, \* one column of the historic intensities, by year
    winsorized,      \* the columns the successive calls of _winsorize returned
    trends,          \* the trend _get_trends extracted from each of them
    historic_df,     \* the panel of historic records, [call |-> "none"] before it is built
    extrapolated,    \* what _extrapolate returned for the column, << >> before
    arr,             \* the window handed to _year_on_year_ratio
    ratio,           \* what it returned
    data,            \* the rows handed to _calculate_aggregate_score
    portfolio_aggregation_method, \* the method it is called with
    aggregate_score  \* what it returned or raised

vars == <<pc, cagr_args, cagr_result, company, production_proj, ei_df, results,
          _companies, next_company, ei_bm, batch_err,
          given, companies, op, traj_err, missing_data, returned,
          _prod_delta_df, _prod_df, _EI_df, company_info_at_base_year, benchmark_df,
          historic_intensities, winsorized, trends,
          historic_df, extrapolated, arr, ratio,
          data, portfolio_aggregation_method, aggregate_score>>

panel_vars == <<historic_df, extrapolated>>

ratio_vars == <<arr, ratio>>

pa_vars == <<data, portfolio_aggregation_method, aggregate_score>>

wins_vars == <<historic_intensities, winsorized, trends>>

bm_vars == <<_prod_delta_df, _prod_df, _EI_df, company_info_at_base_year, benchmark_df>>

traj_vars == <<given, companies, op, traj_err, missing_data, returned>>

batch_vars == <<_companies, next_company, ei_bm, batch_err>>

targets_vars == <<company, production_proj, ei_df, results>>

cagr_vars == <<cagr_args, cagr_result>>

\* the parts of the state a specification does not use
IdleCAGR ==
    /\ cagr_args = [first_year |-> BASE_YEAR, first_value |-> 0,
                    last_year |-> BASE_YEAR, last_value |-> 0]
    /\ cagr_result = EmptySeries

IdleTargets ==
    /\ company = [historic_data |-> [set |-> FALSE], target_data |-> << >>]
    /\ production_proj = EmptySeries
    /\ ei_df = [set |-> FALSE]
    /\ results = << >>

IdleBenchmarks ==
    /\ _prod_delta_df = << >>
    /\ _prod_df = << >>
    /\ _EI_df = << >>
    /\ company_info_at_base_year = << >>
    /\ benchmark_df = [call |-> "none"]

IdleWinsorize ==
    /\ historic_intensities = << >>
    /\ winsorized = << >>
    /\ trends = << >>

IdlePanel ==
    /\ historic_df = [call |-> "none"]
    /\ extrapolated = << >>

IdleRatio ==
    /\ arr = << >>
    /\ ratio = NoValue

IdleAggregation ==
    /\ data = << >>
    /\ portfolio_aggregation_method = "none"
    /\ aggregate_score = [call |-> "none"]

IdleBatch ==
    /\ _companies = << >>
    /\ next_company = 1
    /\ ei_bm = [set |-> FALSE]
    /\ batch_err = "none"

IdleTraj ==
    /\ given = << >>
    /\ companies = << >>
    /\ op = "none"
    /\ traj_err = "none"
    /\ missing_data = << >>
    /\ returned = << >>

(***************************************************************************)
(* Specification SpecCAGR: calls of _compute_CAGR on bounded arguments.    *)
(***************************************************************************)
CagrYears == (BASE_YEAR - 1)..(TARGET_YEAR + 1)

CagrValues == {0, 1, 2, 5, 8, 10, 16, 20}

InitCAGR ==
    /\ cagr_args \in [first_year : CagrYears, first_value : CagrValues,
                      last_year : CagrYears, last_value : CagrValues]
    /\ cagr_result = EmptySeries
    /\ pc = "call"
    /\ IdleTargets
    /\ IdleBatch
    /\ IdleTraj
    /\ IdleBenchmarks
    /\ IdleWinsorize
    /\ IdlePanel /\ IdleRatio /\ IdleAggregation

\* one call of _compute_CAGR on the drawn arguments
CallComputeCAGR ==
    /\ pc = "call"
    /\ pc' = "done"
    /\ cagr_result' = _compute_CAGR(cagr_args.first_year, cagr_args.first_value,
                                    cagr_args.last_year, cagr_args.last_value)
    /\ UNCHANGED <<cagr_args, targets_vars, batch_vars, traj_vars, bm_vars, wins_vars, panel_vars, ratio_vars, pa_vars>>

NextCAGR == CallComputeCAGR

SpecCAGR == InitCAGR /\ [][NextCAGR]_vars

(***************************************************************************)
(* Specification Spec: project_ei_targets, called twice in succession on   *)
(* one company record.                                                     *)
(***************************************************************************)
MaxTargets == 2

Target(scope, type, start, base, end, qty, num, den, nz) ==
    [target_scope |-> scope, target_type |-> type,
     target_start_year |-> start, target_base_year |-> base,
     target_end_year |-> end, target_base_year_qty |-> qty,
     target_reduction_pct |-> [num |-> num, den |-> den],
     netzero_year |-> nz]

\* the targets companies state, in years relative to BASE_YEAR and TARGET_YEAR
TargetPool ==
    { Target("S1S2", "intensity", BASE_YEAR - 1, BASE_YEAR - 1, BASE_YEAR + 1,
             16, 1, 2, BASE_YEAR + 2),
      Target("S1S2", "intensity", BASE_YEAR, BASE_YEAR, BASE_YEAR + 2,
             16, 3, 4, TARGET_YEAR - 1),
      Target("S1S2", "intensity", BASE_YEAR, BASE_YEAR, BASE_YEAR,
             8, 1, 2, BASE_YEAR + 1),
      Target("S1S2", "absolute", BASE_YEAR, BASE_YEAR, BASE_YEAR + 2,
             16, 1, 2, NZ_UNSET),
      Target("S1", "intensity", BASE_YEAR, BASE_YEAR, BASE_YEAR + 2,
             8, 1, 2, NZ_UNSET),
      Target("S1", "absolute", BASE_YEAR, BASE_YEAR, TARGET_YEAR - 1,
             16, 1, 1, NZ_UNSET),
      Target("S1", "intensity", BASE_YEAR, BASE_YEAR, BASE_YEAR + 1,
             8, 1, 2, BASE_YEAR + 2),
      Target("S3", "intensity", BASE_YEAR, BASE_YEAR, BASE_YEAR + 1,
             16, 1, 2, TARGET_YEAR + 1),
      Target("S3", "absolute", BASE_YEAR - 1, BASE_YEAR - 1, BASE_YEAR + 1,
             16, 0, 1, TARGET_YEAR),
      Target("S1S2S3", "intensity", BASE_YEAR, BASE_YEAR, TARGET_YEAR,
             16, 1, 2, NoYear),
      Target("S1S2S3", "absolute", BASE_YEAR, BASE_YEAR, BASE_YEAR + 2,
             16, 19, 20, TARGET_YEAR) }

RECURSIVE SeqsUpTo(_, _)
\* the sequences of at most n members of S
SeqsUpTo(S, n) ==
    IF n = 0 THEN {<< >>}
    ELSE LET shorter == SeqsUpTo(S, n - 1)
         IN  shorter \cup {Append(q, x) : q \in shorter, x \in S}

\* benchmark production: flat, over the benchmark years
FlatProduction == [year \in BASE_YEAR..TARGET_YEAR |-> 2]

\* disclosed intensities of a scope, by profile; NaN is an undisclosed year
Disclosed(profile) ==
    CASE profile = "empty"  -> << >>
      [] profile = "recent" -> <<Proj(BASE_YEAR - 1, 8), Proj(BASE_YEAR, 8),
                                 Proj(BASE_YEAR + 1, 6)>>
      [] profile = "long"   -> <<Proj(BASE_YEAR - 1, 8), Proj(BASE_YEAR, 6),
                                 Proj(BASE_YEAR + 1, 4), Proj(BASE_YEAR + 2, 4)>>
      [] profile = "before" -> <<Proj(BASE_YEAR - 1, 8)>>
      [] profile = "ragged" -> <<Proj(BASE_YEAR, 8), Proj(BASE_YEAR + 1, 6),
                                 Proj(BASE_YEAR + 2, NaN)>>
      [] profile = "nan"    -> <<Proj(BASE_YEAR, NaN), Proj(BASE_YEAR + 1, NaN)>>

HistoryProfiles == {"none", "empty", "recent", "long", "before", "ragged", "nan"}

\* emissions = intensity * production, disclosed for the same years
DisclosedEmissions(profile) ==
    [k \in 1..Len(Disclosed(profile)) |->
        Proj(Disclosed(profile)[k].year, QMul(Disclosed(profile)[k].value, 2))]

\* a disclosed projection: flat at 8 over the horizon
FlatProjected == Curve([k \in 1..(Horizon + 1) |-> Proj(BASE_YEAR + k - 1, 8)])

Company(profile, disclosed_projections, target_data) ==
    [historic_data |->
        IF profile = "none"
        THEN [set |-> FALSE,
              emissions_intensities |-> [s \in Scopes |-> << >>],
              emissions |-> [s \in Scopes |-> << >>]]
        ELSE [set |-> TRUE,
              emissions_intensities |-> [s \in Scopes |-> Disclosed(profile)],
              emissions |-> [s \in Scopes |-> DisclosedEmissions(profile)]],
     projected_intensities |->
        IF disclosed_projections
        THEN [set |-> TRUE, scopes |-> [s \in Scopes |-> FlatProjected]]
        ELSE [set |-> FALSE, scopes |-> [s \in Scopes |-> NoCurve]],
     target_data |-> target_data,
     base_year_production |-> 2]

\* the S2 benchmark intensities: decreasing, positive
BenchmarkS2 == [year \in BASE_YEAR..TARGET_YEAR |-> Max(1, 8 - 2 * (year - BASE_YEAR))]

Init ==
    /\ pc = "call"
    /\ IdleCAGR
    /\ IdleBatch
    /\ IdleTraj
    /\ IdleBenchmarks
    /\ IdleWinsorize
    /\ IdlePanel /\ IdleRatio /\ IdleAggregation
    /\ \E profile \in HistoryProfiles, target_data \in SeqsUpTo(TargetPool, MaxTargets) :
          company = Company(profile, profile = "empty", target_data)
    /\ production_proj = FlatProduction
    /\ ei_df \in {[set |-> FALSE, S2 |-> EmptySeries], [set |-> TRUE, S2 |-> BenchmarkS2]}
    /\ results = << >>

\* one call of project_ei_targets; what it appended to company.target_data and
\* the net-zero years it assigned stay on the company record
ProjectEiTargets ==
    /\ pc = "call"
    /\ \E r \in {project_ei_targets(company, production_proj, ei_df)} :
          /\ results' = Append(results, [err |-> r.err, eps |-> r.eps, nz |-> r.nz])
          /\ company' = [company EXCEPT !.target_data = r.targets]
    /\ pc' = IF Len(results) = 1 THEN "done" ELSE "call"
    /\ UNCHANGED <<production_proj, ei_df, cagr_vars, batch_vars, traj_vars, bm_vars, wins_vars, panel_vars, ratio_vars, pa_vars>>

Next == ProjectEiTargets

Spec == Init /\ [][Next]_vars

(***************************************************************************)
(* BaseCompanyDataProvider._calculate_target_projections                   *)
(*                                                                         *)
(* A company of the provider is the record of project_ei_targets with, in  *)
(* addition: sector, region, has_target_data (target_data is not None),    *)
(* historic_data.productions and projected_targets ([set, eps]; set =      *)
(* FALSE is None).                                                         *)
(***************************************************************************)
\* df_partial_pp.loc[sector, region, AnyScope]: growth 0 every year, so the
\* cumulative product is 1 throughout
ProductionRow(sector, region) == [year \in BASE_YEAR..TARGET_YEAR |-> 1]

\* ICompanyEIProjectionsScopes()
EmptyProjectionsScopes == [set |-> TRUE, eps |-> [s \in Scopes |-> NoCurve]]

NoProjectionsScopes == [set |-> FALSE, eps |-> [s \in Scopes |-> NoCurve]]

\* lines 459-489: the body of the loop, for the company c.  Returns
\* [err, c]: the exception that leaves the loop ("none" if none) and the
\* company as the iteration leaves it.
ProjectCompanyTargets(c, bm) ==
    LET productions == c.historic_data.productions
        at_base == {i \in 1..Len(productions) : productions[i].year = BASE_YEAR}
        base_year_production == productions[SetMin(at_base)].value
        region == IF <<c.sector, c.region>> \in ProductionRows THEN c.region ELSE "Global"
        co_cumprod == [year \in DOMAIN ProductionRow(c.sector, region) |->
                          QMul(ProductionRow(c.sector, region)[year], base_year_production)]
        co_ei_df ==
            IF bm.set /\ (<<c.sector, c.region>> \in IntensityRows
                          \/ <<c.sector, "Global">> \in IntensityRows)
            THEN [set |-> TRUE, S2 |-> BenchmarkS2]
            ELSE [set |-> FALSE, S2 |-> EmptySeries]
        \* lines 472-489
        Caught(r) ==
            IF r.err # "none"
            THEN [err |-> "none",
                  c |-> [c EXCEPT !.target_data = r.targets,
                                  !.projected_targets = EmptyProjectionsScopes]]
            ELSE [err |-> "none",
                  c |-> [c EXCEPT !.target_data = r.targets,
                                  !.projected_targets = [set |-> TRUE, eps |-> r.eps]]]
    IN  IF c.projected_targets.set THEN [err |-> "none", c |-> c]
        ELSE IF ~c.has_target_data
             THEN [err |-> "none", c |-> [c EXCEPT !.projected_targets = EmptyProjectionsScopes]]
        ELSE IF ~c.historic_data.set THEN [err |-> "AttributeError", c |-> c]
        ELSE IF at_base = {} THEN [err |-> "TypeError", c |-> c]
        ELSE IF <<c.sector, region>> \notin ProductionRows THEN [err |-> "KeyError", c |-> c]
        ELSE Caught(project_ei_targets(c, co_cumprod, co_ei_df))

(***************************************************************************)
(* Specification SpecBatch: _calculate_target_projections over a batch,    *)
(* one step per company of the loop.                                       *)
(***************************************************************************)
MaxCompanies == 2

BatchCompany(sector, region, profile, has_target_data, target_data, projected_targets) ==
    LET c == Company(profile, FALSE, target_data)
    IN  [sector |-> sector, region |-> region,
         historic_data |->
            [set |-> c.historic_data.set,
             emissions_intensities |-> c.historic_data.emissions_intensities,
             emissions |-> c.historic_data.emissions,
             productions |-> <<Proj(BASE_YEAR - 1, 2), Proj(BASE_YEAR, 2)>>],
         projected_intensities |-> c.projected_intensities,
         has_target_data |-> has_target_data,
         target_data |-> target_data,
         base_year_production |-> c.base_year_production,
         projected_targets |-> projected_targets]

\* a target that can be projected, and one that cannot once the disclosed
\* history runs past its end year
GoodTarget ==
    Target("S1S2", "intensity", BASE_YEAR, BASE_YEAR, BASE_YEAR + 2,
           16, 3, 4, TARGET_YEAR - 1)

LateTarget ==
    Target("S1S2", "intensity", BASE_YEAR, BASE_YEAR, BASE_YEAR, 8, 1, 2, BASE_YEAR + 1)

BatchPool ==
    { \* projected in its own region
      BatchCompany("Steel", "Europe", "recent", TRUE, <<GoodTarget>>, NoProjectionsScopes),
      \* region unknown to the benchmark: the "Global" row
      BatchCompany("Cement", "Asia", "empty", TRUE, <<GoodTarget>>, NoProjectionsScopes),
      \* project_ei_targets raises (IndexError)
      BatchCompany("Steel", "Europe", "recent", TRUE, <<LateTarget>>, NoProjectionsScopes),
      \* no target data
      BatchCompany("Steel", "Asia", "recent", FALSE, << >>, NoProjectionsScopes),
      \* target projections already there
      BatchCompany("Steel", "Europe", "recent", TRUE, <<GoodTarget>>, EmptyProjectionsScopes),
      \* sector unknown to the production benchmark
      BatchCompany("Oil", "Europe", "recent", TRUE, <<GoodTarget>>, NoProjectionsScopes),
      \* no historic data
      BatchCompany("Steel", "Europe", "none", TRUE, <<GoodTarget>>, NoProjectionsScopes) }

InitBatch ==
    /\ pc = "call"
    /\ IdleCAGR
    /\ IdleTargets
    /\ IdleTraj
    /\ IdleBenchmarks
    /\ IdleWinsorize
    /\ IdlePanel /\ IdleRatio /\ IdleAggregation
    /\ _companies \in SeqsUpTo(BatchPool, MaxCompanies)
    /\ next_company = 1
    /\ ei_bm \in {[set |-> FALSE], [set |-> TRUE]}
    /\ batch_err = "none"

\* one iteration of "for c in self._companies"; an exception that is not
\* caught ends the call
CalculateTargetProjectionsStep ==
    /\ pc = "call"
    /\ next_company <= Len(_companies)
    /\ \E r \in {ProjectCompanyTargets(_companies[next_company], ei_bm)} :
          /\ _companies' = [_companies EXCEPT ![next_company] = r.c]
          /\ batch_err' = r.err
          /\ pc' = IF r.err # "none" THEN "done" ELSE "call"
    /\ next_company' = next_company + 1
    /\ UNCHANGED <<ei_bm, cagr_vars, targets_vars, traj_vars, bm_vars, wins_vars, panel_vars, ratio_vars, pa_vars>>

\* the loop is over: the call returns
CalculateTargetProjectionsReturn ==
    /\ pc = "call"
    /\ next_company > Len(_companies)
    /\ pc' = "done"
    /\ UNCHANGED <<batch_vars, cagr_vars, targets_vars, traj_vars, bm_vars, wins_vars, panel_vars, ratio_vars, pa_vars>>

NextBatch == CalculateTargetProjectionsStep \/ CalculateTargetProjectionsReturn

SpecBatch == InitBatch /\ [][NextBatch]_vars

(***************************************************************************)
(* Specification SpecTraj: project_ei_trajectories, or                     *)
(* _validate_projected_trajectories, called on a batch of companies.       *)
(***************************************************************************)
NoScopes == [s \in Scopes |-> << >>]

Years(first, values) == [k \in 1..Len(values) |-> Proj(first + k - 1, values[k])]

TrajCompany(sector, ei_metric, has_history, productions, emissions,
            emissions_intensities, projections) ==
    [company_id |-> 0, sector |-> sector, region |-> "Europe",
     ei_metric |-> ei_metric, base_year_production |-> 2, ghg_s1s2 |-> NoValue,
     historic_data |-> [set |-> has_history, productions |-> productions,
                        emissions |-> emissions,
                        emissions_intensities |-> emissions_intensities],
     projected_intensities |->
        IF projections = << >>
        THEN [set |-> FALSE, scopes |-> [s \in Scopes |-> NoCurve]]
        ELSE [set |-> TRUE,
              scopes |-> [s \in Scopes |->
                            IF s = "S1S2" THEN Curve(projections) ELSE NoCurve]]]

ThreeYears == Years(BASE_YEAR - 1, <<2, 2, 2>>)

TrajPool ==
    { \* S1S2 intensities disclosed around BASE_YEAR
      TrajCompany("Steel", "t/u", TRUE, ThreeYears, NoScopes,
                  [NoScopes EXCEPT !["S1S2"] = Years(BASE_YEAR - 1, <<8, 8, 6>>)], << >>),
      \* S1S2 emissions and production, no intensity
      TrajCompany("Steel", "t/u", TRUE, ThreeYears,
                  [NoScopes EXCEPT !["S1S2"] = Years(BASE_YEAR - 1, <<16, 16, 12>>)],
                  NoScopes, << >>),
      \* S3 intensity disclosed, S1S2 to be derived from emissions
      TrajCompany("Oil", "t/u", TRUE, ThreeYears,
                  [NoScopes EXCEPT !["S1S2"] = Years(BASE_YEAR - 1, <<16, 16, 12>>)],
                  [NoScopes EXCEPT !["S3"] = Years(BASE_YEAR - 1, <<4, NaN, 4>>)], << >>),
      \* history that starts after BASE_YEAR
      TrajCompany("Steel", "t/u", TRUE, << >>, NoScopes,
                  [NoScopes EXCEPT !["S1S2"] = Years(BASE_YEAR + 1, <<8, 6>>)], << >>),
      \* history that skips a year; S1, S2 and S3 but no compound scope
      TrajCompany("Cement", "t/u", TRUE, << >>, NoScopes,
                  [NoScopes EXCEPT
                      !["S1"] = <<Proj(BASE_YEAR, 8), Proj(BASE_YEAR + 2, 6)>>,
                      !["S2"] = <<Proj(BASE_YEAR, 4), Proj(BASE_YEAR + 2, 4)>>,
                      !["S3"] = <<Proj(BASE_YEAR, 2), Proj(BASE_YEAR + 2, NaN)>>],
                  << >>),
      \* history up to TARGET_YEAR
      TrajCompany("Steel", "kg/u", TRUE, << >>, NoScopes,
                  [NoScopes EXCEPT !["S1S2"] =
                      [k \in 1..(Horizon + 1) |-> Proj(BASE_YEAR + k - 1, 8)]], << >>),
      \* disclosed projections only
      TrajCompany("Steel", "t/u", FALSE, << >>, NoScopes, NoScopes,
                  [k \in 1..(Horizon + 1) |-> Proj(BASE_YEAR + k - 1, 8)]),
      \* disclosed projections only, from the year after BASE_YEAR, in a unit
      \* of another dimension
      TrajCompany("Steel", "t/MWh", FALSE, << >>, NoScopes, NoScopes,
                  [k \in 1..Horizon |-> Proj(BASE_YEAR + k, 8)]),
      \* S1S2 and S3 intensities disclosed, no S1S2S3
      TrajCompany("Oil", "t/u", TRUE, ThreeYears, NoScopes,
                  [NoScopes EXCEPT !["S1S2"] = Years(BASE_YEAR - 1, <<8, 8, 6>>),
                                   !["S3"] = Years(BASE_YEAR - 1, <<4, 4, 2>>)], << >>),
      \* S1, S2 and S3 intensities disclosed, and S1S2 and S3 emissions that
      \* give other intensities over the production
      TrajCompany("Gas", "t/u", TRUE, ThreeYears,
                  [NoScopes EXCEPT !["S1S2"] = Years(BASE_YEAR - 1, <<16, 16, 12>>),
                                   !["S3"] = Years(BASE_YEAR - 1, <<20, 20, 20>>)],
                  [NoScopes EXCEPT !["S1"] = Years(BASE_YEAR - 1, <<8, 8, 6>>),
                                   !["S2"] = Years(BASE_YEAR - 1, <<4, 4, 4>>),
                                   !["S3"] = Years(BASE_YEAR - 1, <<4, 4, 2>>)], << >>),
      \* production only
      TrajCompany("Steel", "t/u", TRUE, ThreeYears, NoScopes, NoScopes, << >>),
      \* nothing at all
      TrajCompany("Steel", "t/u", FALSE, << >>, NoScopes, NoScopes, << >>) }

\* company_id: the position in the batch
WithIds(batch) == [i \in 1..Len(batch) |-> [batch[i] EXCEPT !.company_id = i]]

InitTraj ==
    /\ pc = "call"
    /\ IdleCAGR
    /\ IdleTargets
    /\ IdleBatch
    /\ IdleBenchmarks
    /\ IdleWinsorize
    /\ IdlePanel /\ IdleRatio /\ IdleAggregation
    /\ \E batch \in SeqsUpTo(TrajPool, MaxCompanies) \ {<< >>} :
          given = WithIds(batch)
    /\ companies = given
    /\ op = "none"
    /\ traj_err = "none"
    /\ missing_data = << >>
    /\ returned = << >>

\* EITrajectoryProjector.project_ei_trajectories(companies)
ProjectEiTrajectories ==
    /\ pc = "call"
    /\ \E r \in {project_ei_trajectories(companies)} :
          /\ companies' = r.companies
          /\ traj_err' = r.err
          /\ missing_data' = r.missing_data
          /\ returned' = IF r.err = "none"
                         THEN [i \in 1..Len(companies) |-> companies[i].company_id]
                         ELSE << >>
    /\ op' = "project_ei_trajectories"
    /\ pc' = "done"
    /\ UNCHANGED <<given, cagr_vars, targets_vars, batch_vars, bm_vars, wins_vars, panel_vars, ratio_vars, pa_vars>>

\* BaseCompanyDataProvider._validate_projected_trajectories(companies, df_bm_ei)
ValidateProjectedTrajectories ==
    /\ pc = "call"
    /\ LET ids == [i \in 1..Len(companies) |-> companies[i].company_id]
           \* line 372: the companies with projections, then the projected ones
           with_projections ==
               SelectSeq(ids, LAMBDA i : companies[i].projected_intensities.set)
           without_projections ==
               SelectSeq(ids, LAMBDA i : ~companies[i].projected_intensities.set)
       IN  \E r \in {_validate_projected_trajectories(companies)} :
              /\ companies' = r.companies
              /\ traj_err' = r.err
              /\ missing_data' = r.missing_data
              /\ returned' = IF r.err # "none" THEN << >>
                             ELSE IF without_projections = << >> THEN ids
                             ELSE with_projections \o without_projections
    /\ op' = "_validate_projected_trajectories"
    /\ pc' = "done"
    /\ UNCHANGED <<given, cagr_vars, targets_vars, batch_vars, bm_vars, wins_vars, panel_vars, ratio_vars, pa_vars>>

NextTraj == ProjectEiTrajectories \/ ValidateProjectedTrajectories

SpecTraj == InitTraj /\ [][NextTraj]_vars

(***************************************************************************)
(* Specification SpecHistoric: the first two steps of                      *)
(* project_ei_trajectories on the same batches, with the panel they build  *)
(* kept in historic_df.                                                    *)
(***************************************************************************)
\* historic_df = self._extract_historic_df(companies)
ExtractHistoricDf ==
    /\ pc = "call"
    /\ \E r \in {_extract_historic_df(companies)} :
          historic_df' = [call |-> "_extract_historic_df", err |-> r.err,
                          columns |-> r.columns, rows |-> r.rows,
                          missing_data |-> << >>]
    /\ pc' = "extracted"
    /\ UNCHANGED <<extrapolated, traj_vars>>
    /\ UNCHANGED <<cagr_vars, targets_vars, batch_vars, bm_vars, wins_vars>>
    /\ UNCHANGED <<ratio_vars, pa_vars>>

\* self._compute_missing_historic_ei(companies, historic_df), which changes
\* historic_df in place
ComputeMissingHistoricEi ==
    /\ pc = "extracted"
    /\ historic_df.err = "none"
    /\ \E r \in {_compute_missing_historic_ei(companies, historic_df)} :
          historic_df' = [call |-> "_compute_missing_historic_ei", err |-> r.err,
                          columns |-> historic_df.columns, rows |-> r.rows,
                          missing_data |-> r.missing_data]
    /\ pc' = "done"
    /\ UNCHANGED <<extrapolated, traj_vars>>
    /\ UNCHANGED <<cagr_vars, targets_vars, batch_vars, bm_vars, wins_vars>>
    /\ UNCHANGED <<ratio_vars, pa_vars>>

NextHistoric == ExtractHistoricDf \/ ComputeMissingHistoricEi

SpecHistoric == InitTraj /\ [][NextHistoric]_vars

(***************************************************************************)
(* Specification of the two list operations of EITargetProjector:          *)
(* calculate_nz_target_years and _order_scope_targets, each applied once   *)
(* to a list of targets.                                                   *)
(***************************************************************************)
MaxListed == 4

\* targets whose net-zero years, end years and start years coincide and
\* differ across the scopes
ListedPool ==
    { Target("S1", "intensity", BASE_YEAR, BASE_YEAR, BASE_YEAR + 1,
             16, 1, 2, BASE_YEAR + 1),
      Target("S2", "intensity", BASE_YEAR - 1, BASE_YEAR - 1, BASE_YEAR + 1,
             16, 1, 2, BASE_YEAR + 1),
      Target("S2", "intensity", BASE_YEAR, BASE_YEAR, BASE_YEAR + 2,
             16, 1, 2, BASE_YEAR + 3),
      Target("S1S2", "intensity", BASE_YEAR, BASE_YEAR, BASE_YEAR + 2,
             16, 1, 2, BASE_YEAR + 3),
      Target("S1S2", "absolute", BASE_YEAR, BASE_YEAR, BASE_YEAR + 2,
             16, 1, 1, NZ_UNSET),
      Target("S1S2S3", "intensity", BASE_YEAR, BASE_YEAR, BASE_YEAR + 1,
             16, 1, 2, BASE_YEAR + 2),
      Target("S3", "absolute", BASE_YEAR - 1, BASE_YEAR - 1, BASE_YEAR + 2,
             16, 1, 2, BASE_YEAR + 1),
      Target("S3", "intensity", BASE_YEAR, BASE_YEAR, BASE_YEAR + 2,
             16, 1, 2, BASE_YEAR + 3),
      Target("S1", "absolute", BASE_YEAR, BASE_YEAR, BASE_YEAR + 1,
             16, 1, 2, NoYear) }

InitLists ==
    /\ pc = "call"
    /\ \E target_data \in SeqsUpTo(ListedPool, MaxListed) :
          company = Company("none", FALSE, target_data)
    /\ production_proj = FlatProduction
    /\ ei_df = [set |-> FALSE]
    /\ results = << >>
    /\ IdleCAGR /\ IdleBatch /\ IdleTraj
    /\ IdleBenchmarks
    /\ IdleWinsorize
    /\ IdlePanel /\ IdleRatio /\ IdleAggregation

\* nz_target_years = self.calculate_nz_target_years(targets)
CalculateNzTargetYears ==
    /\ pc = "call"
    /\ \E r \in {calculate_nz_target_years(company.target_data)} :
          results' = Append(results, [call |-> "calculate_nz_target_years",
                                       err |-> r.err, nz |-> r.nz])
    /\ pc' = "done"
    /\ UNCHANGED <<company, production_proj, ei_df>>
    /\ UNCHANGED <<cagr_vars, batch_vars, traj_vars, bm_vars, wins_vars, panel_vars, ratio_vars, pa_vars>>

\* self._order_scope_targets(scope_targets); the targets are objects, so the
\* net-zero years the call assigns show on the company's list
OrderScopeTargets ==
    /\ pc = "call"
    /\ \E r \in {_order_scope_targets(company.target_data,
                                      [k \in 1..Len(company.target_data) |-> k])} :
          /\ results' = Append(results, [call |-> "_order_scope_targets",
                                          order |-> r.order])
          /\ company' = [company EXCEPT !.target_data = r.targets]
    /\ pc' = "done"
    /\ UNCHANGED <<production_proj, ei_df>>
    /\ UNCHANGED <<cagr_vars, batch_vars, traj_vars, bm_vars, wins_vars, panel_vars, ratio_vars, pa_vars>>

NextLists == CalculateNzTargetYears \/ OrderScopeTargets

SpecLists == InitLists /\ [][NextLists]_vars

(***************************************************************************)
(* Specification of the loop over the pending targets of one scope         *)
(* (project_ei_targets, lines 1126-1312): the S1S2 targets of a company    *)
(* are ordered by type and projected one after the other.                  *)
(***************************************************************************)
\* S1S2 targets of both types whose start years and end years coincide and
\* differ
PendingPool ==
    { Target("S1S2", type, start, start, end,
             16, IF type = "intensity" THEN 1 ELSE 3, IF type = "intensity" THEN 2 ELSE 4,
             NZ_UNSET) :
        type \in {"intensity", "absolute"},
        start \in {BASE_YEAR - 1, BASE_YEAR},
        end \in {BASE_YEAR + 1, BASE_YEAR + 2} }

InitPending ==
    /\ pc = "call"
    /\ \E profile \in HistoryProfiles, target_data \in SeqsUpTo(PendingPool, MaxTargets) :
          company = Company(profile, FALSE, target_data)
    /\ production_proj = FlatProduction
    /\ ei_df = [set |-> FALSE]
    /\ results = << >>
    /\ IdleCAGR /\ IdleBatch /\ IdleTraj
    /\ IdleBenchmarks
    /\ IdleWinsorize
    /\ IdlePanel /\ IdleRatio /\ IdleAggregation

\* the state of the loop before the first target of the scope
NothingProjected ==
    [eps |-> NoCurve, target_year |-> NoYear, target_ei_value |-> NoValue,
     last_prod_value |-> NoValue, err |-> "none",
     projected |-> << >>, discarded |-> << >>, warnings |-> << >>,
     anchors |-> << >>]

\* the targets a call of _order_scope_targets returned
Pending(ordered) == [k \in 1..Len(ordered.order) |-> ordered.targets[ordered.order[k]]]

\* lines 1126-1312 for scope S1S2
ProjectPendingTargets ==
    /\ pc = "call"
    /\ \E ordered_i \in {_order_scope_targets(company.target_data,
                            TargetIndices(company.target_data, "S1S2", "intensity"))} :
       \E ordered_a \in {_order_scope_targets(ordered_i.targets,
                            TargetIndices(ordered_i.targets, "S1S2", "absolute"))} :
       \E ls \in {MergeLoop(Pending(ordered_i), Pending(ordered_a), NothingProjected,
                            company, production_proj, "S1S2")} :
          /\ results' = Append(results,
                [call |-> "project_ei_targets",
                 scope_targets_intensity |-> Pending(ordered_i),
                 scope_targets_absolute |-> Pending(ordered_a),
                 projected |-> ls.projected, discarded |-> ls.discarded,
                 warnings |-> ls.warnings,
                 anchors |-> ls.anchors,
                 eps |-> ls.eps, err |-> ls.err])
          /\ company' = [company EXCEPT !.target_data = ordered_a.targets]
    /\ pc' = "done"
    /\ UNCHANGED <<production_proj, ei_df>>
    /\ UNCHANGED <<cagr_vars, batch_vars, traj_vars, bm_vars, wins_vars, panel_vars, ratio_vars, pa_vars>>

NextPending == ProjectPendingTargets

SpecPending == InitPending /\ [][NextPending]_vars

(***************************************************************************)
(* BaseProviderProductionBenchmark and BaseProviderIntensityBenchmark      *)
(* A benchmark table maps (sector, region) or (sector, region, scope) to a *)
(* series over the years; a growth delta d stands for d / DeltaScale, and  *)
(* a growth index is the exact fraction [num, den].  Rows of companies are *)
(* records [company_id, sector, region, scope, base_ei].                   *)
(***************************************************************************)
DeltaScale == 10

\* the index value of a (sector, region) the table lacks: NaN
NaNIndex == [num |-> 0, den |-> 0]

RECURSIVE cumprod_from_one(_, _)
\* the running product started at 1.0 in the first column, whatever its delta
cumprod_from_one(deltas, year) ==
    IF year = SetMin(DOMAIN deltas)
    THEN [num |-> DeltaScale, den |-> DeltaScale]
    ELSE [num |-> cumprod_from_one(deltas, year - 1).num * (DeltaScale + deltas[year]),
          den |-> cumprod_from_one(deltas, year - 1).den * DeltaScale]

RECURSIVE cumprod(_, _)
\* line 94, _prod_delta_df.add(1.0).cumprod(axis=1) for one row: the product
\* of 1 + delta over the columns up to year
cumprod(deltas, year) ==
    IF year = SetMin(DOMAIN deltas)
    THEN [num |-> DeltaScale + deltas[year], den |-> DeltaScale]
    ELSE [num |-> cumprod(deltas, year - 1).num * (DeltaScale + deltas[year]),
          den |-> cumprod(deltas, year - 1).den * DeltaScale]

\* lines 88-94: self._prod_df
ProductionIndex(prod_delta_df) ==
    [key \in DOMAIN prod_delta_df |->
        [year \in DOMAIN prod_delta_df[key] |-> cumprod(prod_delta_df[key], year)]]

\* the positions of a sequence that satisfy a mask, in order
Masked(mask) == SortedSeq({i \in DOMAIN mask : mask[i]})

\* lines 166-167: the left merge on (sector, region); NaN where the table has
\* no such row
MergeOnSectorRegion(df, benchmark_projection) ==
    [i \in DOMAIN df |->
        IF <<df[i].sector, df[i].region>> \in DOMAIN benchmark_projection
        THEN benchmark_projection[<<df[i].sector, df[i].region>>]
        ELSE [year \in BASE_YEAR..TARGET_YEAR |-> NaNIndex]]

\* lines 171-172: the left merge of the masked rows on the sector of the
\* Global rows
MergeOnGlobalSector(row, benchmark_projection) ==
    IF <<row.sector, "Global">> \in DOMAIN benchmark_projection
    THEN benchmark_projection[<<row.sector, "Global">>]
    ELSE [year \in BASE_YEAR..TARGET_YEAR |-> NaNIndex]

\* BaseProviderProductionBenchmark.get_benchmark_projections: [err, rows],
\* the rows being [company_id, scope, projections]
get_benchmark_projections(df, benchmark_projection) ==
    LET Rows(merged, mask) ==
            [k \in 1..Len(Masked([i \in DOMAIN mask |-> ~mask[i]])) |->
                [company_id |-> df[Masked([i \in DOMAIN mask |-> ~mask[i]])[k]].company_id,
                 scope |-> df[Masked([i \in DOMAIN mask |-> ~mask[i]])[k]].scope,
                 projections |-> merged[Masked([i \in DOMAIN mask |-> ~mask[i]])[k]]]]
            \o
            [k \in 1..Len(Masked(mask)) |->
                [company_id |-> df[Masked(mask)[k]].company_id,
                 scope |-> df[Masked(mask)[k]].scope,
                 projections |-> MergeOnGlobalSector(df[Masked(mask)[k]],
                                                     benchmark_projection)]]
        Patched(merged, mask) ==
            IF \A i \in DOMAIN mask : ~mask[i]
            THEN [err |-> "none", rows |-> Rows(merged, mask)]
            \* benchmark_projection.loc[(slice(None), 'Global'), :]
            ELSE IF ~\E key \in DOMAIN benchmark_projection : key[2] = "Global"
            THEN [err |-> "KeyError", rows |-> << >>]
            ELSE [err |-> "none", rows |-> Rows(merged, mask)]
        \* line 168: mask = company_benchmark_projections.iloc[:, -1].isna()
        WithMask(merged) ==
            Patched(merged, [i \in DOMAIN df |-> merged[i][TARGET_YEAR] = NaNIndex])
    IN  WithMask(MergeOnSectorRegion(df, benchmark_projection))

\* line 275: the left join on (sector, region, scope)
JoinOnSectorRegionScope(df, benchmark_projections) ==
    [i \in DOMAIN df |->
        IF <<df[i].sector, df[i].region, df[i].scope>> \in DOMAIN benchmark_projections
        THEN benchmark_projections[<<df[i].sector, df[i].region, df[i].scope>>]
        ELSE [year \in BASE_YEAR..TARGET_YEAR |-> NaN]]

\* no row is patched
PatchWithGlobal_none(df, joined, benchmark_projections) == joined

\* lines 282-287: the masked rows that have a Global row of their sector and
\* scope take it; the others stay NaN
PatchWithGlobal(df, joined, benchmark_projections) ==
    [i \in DOMAIN df |->
        IF joined[i][TARGET_YEAR] # NaN THEN joined[i]
        ELSE IF <<df[i].sector, "Global", df[i].scope>> \in DOMAIN benchmark_projections
        THEN benchmark_projections[<<df[i].sector, "Global", df[i].scope>>]
        ELSE joined[i]]

\* BaseProviderIntensityBenchmark._get_intensity_benchmarks with
\* scope_to_calc = None: [err, rows]; the rows left without a curve are
\* removed (lines 288-290)
_get_intensity_benchmarks(df, benchmark_projections) ==
    LET Rows(patched) ==
            [k \in 1..Len(Masked([i \in DOMAIN df |-> patched[i][TARGET_YEAR] # NaN])) |->
                [company_id |->
                     df[Masked([i \in DOMAIN df |-> patched[i][TARGET_YEAR] # NaN])[k]].company_id,
                 scope |->
                     df[Masked([i \in DOMAIN df |-> patched[i][TARGET_YEAR] # NaN])[k]].scope,
                 projections |->
                     patched[Masked([i \in DOMAIN df |-> patched[i][TARGET_YEAR] # NaN])[k]]]]
        Joined(joined) ==
            IF \A i \in DOMAIN df : joined[i][TARGET_YEAR] # NaN
            THEN [err |-> "none", rows |-> Rows(joined)]
            \* benchmark_projections.loc[:, 'Global', :]
            ELSE IF ~\E key \in DOMAIN benchmark_projections : key[2] = "Global"
            THEN [err |-> "KeyError", rows |-> << >>]
            ELSE [err |-> "none",
                  rows |-> Rows(PatchWithGlobal(df, joined, benchmark_projections))]
    IN  Joined(JoinOnSectorRegionScope(df, benchmark_projections))

\* _get_decarbonization: (intensity_benchmark_ser - last_ei) / ei_diff, as
\* the fractions [num, den]
_get_decarbonization(intensity_benchmark_ser) ==
    [year \in DOMAIN intensity_benchmark_ser |->
        [num |-> intensity_benchmark_ser[year] - intensity_benchmark_ser[TARGET_YEAR],
         den |-> intensity_benchmark_ser[BASE_YEAR] - intensity_benchmark_ser[TARGET_YEAR]]]

\* lines 218-219: decarbonization_paths_t.mul(ei_base - last_ei).add(last_ei);
\* a path over a zero ei_diff is NaN
SDAPath(decarbonization_path, ei_base, last_ei) ==
    [year \in DOMAIN decarbonization_path |->
        IF decarbonization_path[year].den = 0 THEN NaN
        ELSE (decarbonization_path[year].num * (ei_base - last_ei))
                 \div decarbonization_path[year].den + last_ei]

\* BaseProviderIntensityBenchmark.get_SDA_intensity_benchmarks: ei_base is
\* row BASE_YEAR of the intensity benchmarks (line 217)
get_SDA_intensity_benchmarks(df, benchmark_projections) ==
    LET OverRows(intensity_benchmarks) ==
            IF intensity_benchmarks.err # "none" THEN intensity_benchmarks
            ELSE [err |-> "none",
                  rows |->
                    [k \in DOMAIN intensity_benchmarks.rows |->
                        [intensity_benchmarks.rows[k] EXCEPT !.projections =
                            SDAPath(_get_decarbonization(@), @[BASE_YEAR], @[TARGET_YEAR])]]]
    IN  OverRows(_get_intensity_benchmarks(df, benchmark_projections))

(***************************************************************************)
(* Specification of the benchmark providers: the production benchmark is   *)
(* constructed, then one lookup is called with the rows of some companies. *)
(***************************************************************************)
BenchmarkKeys == {<<"Steel", "Global">>, <<"Steel", "Europe">>,
                  <<"Oil", "Global">>, <<"Oil", "Europe">>}

BenchmarkFamilies == 1..3

\* growth deltas in tenths: steady growth, growth and decline in turn, and a
\* table whose first column is not 0
GrowthDeltas(family, key, year) ==
    CASE (family + (IF key[2] = "Global" THEN 0 ELSE 1)) % 3 = 1 ->
             IF year = BASE_YEAR THEN 0 ELSE 1
      [] (family + (IF key[2] = "Global" THEN 0 ELSE 1)) % 3 = 2 ->
             IF year = BASE_YEAR THEN 0 ELSE IF (year - BASE_YEAR) % 2 = 1 THEN 2 ELSE -1
      [] OTHER -> IF year = BASE_YEAR THEN 2 ELSE 0

\* intensity curves: the Global ones decline; the regional ones decline,
\* stay flat or rise
IntensityCurve(family, key, year) ==
    (IF key[1] = "Oil" THEN 1 ELSE 0)
    + CASE key[2] = "Global" -> 8 - (year - BASE_YEAR)
        [] key[2] # "Global" /\ family = 1 -> 12 - 2 * (year - BASE_YEAR)
        [] key[2] # "Global" /\ family = 2 -> 6
        [] OTHER -> 4 + (year - BASE_YEAR)

CompanyRows ==
    [company_id : {0}, sector : {"Steel", "Oil"}, region : {"Europe", "Ruritania"},
     scope : {"S1S2"}, base_ei : {6, 10}]

InitBenchmarks ==
    /\ pc = "new"
    /\ \E keys \in SUBSET BenchmarkKeys, family \in BenchmarkFamilies :
          /\ _prod_delta_df =
                [key \in keys |->
                    [year \in BASE_YEAR..TARGET_YEAR |-> GrowthDeltas(family, key, year)]]
          /\ _EI_df =
                [key \in {<<k[1], k[2], "S1S2">> : k \in keys} |->
                    [year \in BASE_YEAR..TARGET_YEAR |->
                        IntensityCurve(family, <<key[1], key[2]>>, year)]]
    /\ _prod_df = << >>
    /\ \E rows \in SeqsUpTo(CompanyRows, MaxCompanies) :
          company_info_at_base_year = [i \in 1..Len(rows) |-> [rows[i] EXCEPT !.company_id = i]]
    /\ benchmark_df = [call |-> "none"]
    /\ IdleCAGR /\ IdleTargets /\ IdleBatch /\ IdleTraj
    /\ IdleWinsorize
    /\ IdlePanel /\ IdleRatio /\ IdleAggregation

\* BaseProviderProductionBenchmark.__init__
ProductionBenchmarkInit ==
    /\ pc = "new"
    /\ _prod_df' = ProductionIndex(_prod_delta_df)
    /\ pc' = "call"
    /\ UNCHANGED <<_prod_delta_df, _EI_df, company_info_at_base_year, benchmark_df>>
    /\ UNCHANGED <<cagr_vars, targets_vars, batch_vars, traj_vars, wins_vars, panel_vars, ratio_vars, pa_vars>>

GetBenchmarkProjections ==
    /\ pc = "call"
    /\ \E r \in {get_benchmark_projections(company_info_at_base_year, _prod_df)} :
          benchmark_df' = [call |-> "get_benchmark_projections",
                           err |-> r.err, rows |-> r.rows]
    /\ pc' = "done"
    /\ UNCHANGED <<_prod_delta_df, _prod_df, _EI_df, company_info_at_base_year>>
    /\ UNCHANGED <<cagr_vars, targets_vars, batch_vars, traj_vars, wins_vars, panel_vars, ratio_vars, pa_vars>>

GetIntensityBenchmarks ==
    /\ pc = "call"
    /\ \E r \in {_get_intensity_benchmarks(company_info_at_base_year, _EI_df)} :
          benchmark_df' = [call |-> "_get_intensity_benchmarks",
                           err |-> r.err, rows |-> r.rows]
    /\ pc' = "done"
    /\ UNCHANGED <<_prod_delta_df, _prod_df, _EI_df, company_info_at_base_year>>
    /\ UNCHANGED <<cagr_vars, targets_vars, batch_vars, traj_vars, wins_vars, panel_vars, ratio_vars, pa_vars>>

GetSDAIntensityBenchmarks ==
    /\ pc = "call"
    /\ \E r \in {get_SDA_intensity_benchmarks(company_info_at_base_year, _EI_df)} :
          benchmark_df' = [call |-> "get_SDA_intensity_benchmarks",
                           err |-> r.err, rows |-> r.rows]
    /\ pc' = "done"
    /\ UNCHANGED <<_prod_delta_df, _prod_df, _EI_df, company_info_at_base_year>>
    /\ UNCHANGED <<cagr_vars, targets_vars, batch_vars, traj_vars, wins_vars, panel_vars, ratio_vars, pa_vars>>

NextBenchmarks ==
    \/ ProductionBenchmarkInit
    \/ GetBenchmarkProjections
    \/ GetIntensityBenchmarks
    \/ GetSDAIntensityBenchmarks

SpecBenchmarks == InitBenchmarks /\ [][NextBenchmarks]_vars

(***************************************************************************)
(* Specification SpecWinsorize: _winsorize applied to one column of        *)
(* historic intensities, applied again to what it returned, and            *)
(* _get_trends applied to both.                                            *)
(***************************************************************************)
\* the most years of history a column holds
MaxHistory == 5

\* Intensities in hundreds, so that the 10% and 90% quantiles of up to
\* eleven values, and those of the clipped column, are whole numbers.
HistoricValues == {NaN, 0, 100, 400, 1000}

InitWinsorize ==
    /\ pc = "call"
    /\ \E col \in SeqsUpTo(HistoricValues, MaxHistory) :
          /\ col # << >>
          /\ historic_intensities = col
    /\ winsorized = << >>
    /\ trends = << >>
    /\ IdleCAGR /\ IdleTargets /\ IdleBatch /\ IdleTraj
    /\ IdleBenchmarks
    /\ IdlePanel /\ IdleRatio /\ IdleAggregation

\* winsorized_intensities_t = self._winsorize(intensities_t)
Standardize ==
    /\ pc = "call"
    /\ winsorized' = <<_winsorize(historic_intensities)>>
    /\ pc' = "winsorized"
    /\ UNCHANGED <<historic_intensities, trends>>
    /\ UNCHANGED <<cagr_vars, targets_vars, batch_vars, traj_vars, bm_vars>>
    /\ UNCHANGED <<panel_vars, ratio_vars, pa_vars>>

\* self._winsorize applied to the column it returned
Rewinsorize ==
    /\ pc = "winsorized"
    /\ winsorized' = Append(winsorized, _winsorize(winsorized[1]))
    /\ pc' = "rewinsorized"
    /\ UNCHANGED <<historic_intensities, trends>>
    /\ UNCHANGED <<cagr_vars, targets_vars, batch_vars, traj_vars, bm_vars>>
    /\ UNCHANGED <<panel_vars, ratio_vars, pa_vars>>

\* self._get_trends of the column winsorized once and of the one winsorized twice
GetTrends ==
    /\ pc = "rewinsorized"
    /\ trends' = <<_get_trends(winsorized[1]), _get_trends(winsorized[2])>>
    /\ pc' = "done"
    /\ UNCHANGED <<historic_intensities, winsorized>>
    /\ UNCHANGED <<cagr_vars, targets_vars, batch_vars, traj_vars, bm_vars>>
    /\ UNCHANGED <<panel_vars, ratio_vars, pa_vars>>

\* the years of the column: consecutive, the last one BASE_YEAR
HistoricYears ==
    [k \in 1..Len(historic_intensities) |-> BASE_YEAR - Len(historic_intensities) + k]

\* self._extrapolate(intensity_trends_t, projection_years, historic_ei_t),
\* with projection_years = range(max(historic_years), TARGET_YEAR + 1)
Extrapolate ==
    /\ pc = "done"
    /\ extrapolated' =
          _extrapolate(trends[1], [k \in 1..(Horizon + 1) |-> BASE_YEAR + k - 1],
                       historic_intensities, HistoricYears)
    /\ pc' = "extrapolated"
    /\ UNCHANGED <<historic_df, wins_vars>>
    /\ UNCHANGED <<cagr_vars, targets_vars, batch_vars, traj_vars, bm_vars>>
    /\ UNCHANGED <<ratio_vars, pa_vars>>

NextWinsorize == Standardize \/ Rewinsorize \/ GetTrends \/ Extrapolate

SpecWinsorize == InitWinsorize /\ [][NextWinsorize]_vars

(***************************************************************************)
(* Specification SpecRatio: calls of _year_on_year_ratio on windows of two *)
(* values.                                                                 *)
(***************************************************************************)
\* the values of a window: negative, zero and positive intensities
RatioValues == {-8, -4, -2, -1, 0, 1, 2, 3, 4, 6, 8, 12}

InitRatio ==
    /\ pc = "call"
    /\ arr \in RatioValues \X RatioValues
    /\ ratio = NoValue
    /\ IdleCAGR /\ IdleTargets /\ IdleBatch /\ IdleTraj
    /\ IdleBenchmarks
    /\ IdleWinsorize
    /\ IdlePanel /\ IdleAggregation

\* self._year_on_year_ratio(arr), as rolling(window=2).apply calls it
YearOnYearRatio ==
    /\ pc = "call"
    /\ ratio' = _year_on_year_ratio(arr[1], arr[2])
    /\ pc' = "done"
    /\ UNCHANGED <<arr, cagr_vars, targets_vars, batch_vars, traj_vars, bm_vars>>
    /\ UNCHANGED <<wins_vars, panel_vars, pa_vars>>

NextRatio == YearOnYearRatio

SpecRatio == InitRatio /\ [][NextRatio]_vars

(***************************************************************************)
(* PortfolioAggregation (portfolio_aggregation.py)                         *)
(* data is the DataFrame, one record per company row; a null cell is NaN.  *)
(* Scores are in tenths of a degree, contributions in thousandths of that. *)
(***************************************************************************)
PortfolioAggregationMethod == {"WATS", "TETS", "MOTS", "EOTS", "ECOTS", "AOTS", "ROTS"}

\* PortfolioAggregationMethod.is_emissions_based
is_emissions_based(method) == method \in {"MOTS", "EOTS", "ECOTS", "AOTS", "ROTS"}

\* PortfolioAggregationMethod.get_value_column
get_value_column(method) ==
    CASE method = "MOTS" -> "company_market_cap"
      [] method = "EOTS" -> "company_enterprise_value"
      [] method = "ECOTS" -> "company_ev_plus_cash"
      [] method = "AOTS" -> "company_total_assets"
      [] method = "ROTS" -> "company_revenue"
      [] OTHER -> "company_market_cap"

\* _check_column: the companies whose value of the column is null; the
\* method raises ValueError when there is one
_check_column(rows, column) ==
    {rows[k].company_name : k \in {i \in 1..Len(rows) : isnan(rows[i][column])}}

\* Series.sum(): null cells are skipped
RECURSIVE SumSkipNa(_)
SumSkipNa(cells) ==
    IF cells = << >> THEN 0
    ELSE (IF isnan(cells[1]) THEN 0 ELSE cells[1]) + SumSkipNa(Tail(cells))

\* data[SCOPE].isin([S1S2, S1S2S3]) and data[SCOPE].isin([S3, S1S2S3])
use_S1S2(row) == row.scope \in {"S1S2", "S1S2S3"}

use_S3(row) == row.scope \in {"S3", "S1S2S3"}

\* mask * column, cell by cell: a null cell stays null under a False mask
MaskedCell(use, cell) == IF isnan(cell) THEN NaN ELSE IF use THEN cell ELSE 0

\* lines 94-101, for a total that is not zero
AggregateWATS(rows) ==
    LET total_investment_weight ==
            SumSkipNa([k \in 1..Len(rows) |-> rows[k].investment_value])
    IN  [err |-> "none", data |-> rows,
         values |-> [k \in 1..Len(rows) |->
                       QDiv(QMul(QMul(rows[k].investment_value,
                                      rows[k].temperature_score), 1000),
                            total_investment_weight)]]

\* lines 104-117, for total emissions that are not zero
AggregateTETS(rows) ==
    LET S1S2Cells == [k \in 1..Len(rows) |-> MaskedCell(use_S1S2(rows[k]), rows[k].ghg_s1s2)]
        S3Cells == [k \in 1..Len(rows) |-> MaskedCell(use_S3(rows[k]), rows[k].ghg_s3)]
        emissions == SumSkipNa(S1S2Cells) + SumSkipNa(S3Cells)
    IN  IF /\ \E k \in 1..Len(rows) : use_S3(rows[k])
           /\ _check_column(rows, "ghg_s3") # {}
        THEN [err |-> "ValueError", data |-> rows, values |-> << >>]
        ELSE IF /\ \E k \in 1..Len(rows) : use_S1S2(rows[k])
                /\ _check_column(rows, "ghg_s1s2") # {}
        THEN [err |-> "ValueError", data |-> rows, values |-> << >>]
        ELSE [err |-> "none", data |-> rows,
              values |-> [k \in 1..Len(rows) |->
                            QDiv(QMul(QMul(QAdd(S1S2Cells[k], S3Cells[k]),
                                           rows[k].temperature_score), 1000),
                                 emissions)]]

\* lines 119-153: the call of the undefined name error at line 139 ends
\* every call that passed the checks of the columns
AggregateEmissionsBased(rows, method) ==
    LET value_column == get_value_column(method)
        \* lines 124-125
        WithEvPlusCash ==
            [k \in 1..Len(rows) |->
                [rows[k] EXCEPT !.company_ev_plus_cash =
                    QAdd(rows[k].company_enterprise_value,
                         rows[k].company_cash_equivalents)]]
        checked == IF method = "ECOTS" THEN WithEvPlusCash ELSE rows
    IN  IF /\ method = "ECOTS"
           /\ \/ _check_column(rows, "company_enterprise_value") # {}
              \/ _check_column(rows, "company_cash_equivalents") # {}
        THEN [err |-> "ValueError", data |-> rows, values |-> << >>]
        ELSE IF \/ _check_column(checked, "investment_value") # {}
                \/ _check_column(checked, value_column) # {}
                \/ /\ \E k \in 1..Len(rows) : use_S1S2(rows[k])
                   /\ _check_column(checked, "ghg_s1s2") # {}
                \/ /\ \E k \in 1..Len(rows) : use_S3(rows[k])
                   /\ _check_column(checked, "ghg_s3") # {}
        THEN [err |-> "ValueError", data |-> checked, values |-> << >>]
        ELSE [err |-> "NameError", data |-> checked, values |-> << >>]

\* PortfolioAggregation._calculate_aggregate_score
_calculate_aggregate_score(rows, method) ==
    IF method = "WATS" THEN AggregateWATS(rows)
    ELSE IF method = "TETS" THEN AggregateTETS(rows)
    ELSE IF is_emissions_based(method) THEN AggregateEmissionsBased(rows, method)
    ELSE [err |-> "ValueError", data |-> rows, values |-> << >>]

(***************************************************************************)
(* Specification SpecAggregation: one call of _calculate_aggregate_score   *)
(* on a portfolio of up to MaxCompanies rows.                              *)
(***************************************************************************)
\* a row with every column filled; company_ev_plus_cash and owned_emissions
\* are the columns the method adds
FilledRow(name, scope) ==
    [company_name |-> name, scope |-> scope,
     investment_value |-> 10, temperature_score |-> 20,
     company_market_cap |-> 100, company_enterprise_value |-> 80,
     company_cash_equivalents |-> 20, company_ev_plus_cash |-> NaN,
     company_total_assets |-> 200, company_revenue |-> 50,
     ghg_s1s2 |-> 40, ghg_s3 |-> 60, owned_emissions |-> NaN]

\* rows of every scope, filled, and rows with one null cell
PortfolioPool ==
    { FilledRow("A", "S1S2"),
      [FilledRow("B", "S1S2S3") EXCEPT !.investment_value = 30,
                                       !.temperature_score = 32],
      [FilledRow("C", "S3") EXCEPT !.company_market_cap = 50, !.ghg_s3 = 20],
      [FilledRow("D", "S1S2") EXCEPT !.company_market_cap = NaN],
      [FilledRow("E", "S3") EXCEPT !.ghg_s3 = NaN],
      [FilledRow("F", "S1S2") EXCEPT !.investment_value = NaN],
      [FilledRow("G", "S1S2") EXCEPT !.company_cash_equivalents = NaN] }

InitAggregation ==
    /\ pc = "call"
    /\ data \in {rows \in SeqsUpTo(PortfolioPool, MaxCompanies) : rows # << >>}
    /\ portfolio_aggregation_method \in PortfolioAggregationMethod \cup {"invalid"}
    /\ aggregate_score = [call |-> "none"]
    /\ IdleCAGR /\ IdleTargets /\ IdleBatch /\ IdleTraj
    /\ IdleBenchmarks
    /\ IdleWinsorize
    /\ IdlePanel /\ IdleRatio

\* self._calculate_aggregate_score(data, input_column, portfolio_aggregation_method)
CalculateAggregateScore ==
    /\ pc = "call"
    /\ \E r \in {_calculate_aggregate_score(data, portfolio_aggregation_method)} :
          /\ aggregate_score' = [call |-> "_calculate_aggregate_score",
                                 err |-> r.err, values |-> r.values]
          /\ data' = r.data
    /\ pc' = "done"
    /\ UNCHANGED <<portfolio_aggregation_method>>
    /\ UNCHANGED <<cagr_vars, targets_vars, batch_vars, traj_vars, bm_vars>>
    /\ UNCHANGED <<wins_vars, panel_vars, ratio_vars>>

NextAggregation == CalculateAggregateScore

SpecAggregation == InitAggregation /\ [][NextAggregation]_vars

(***************************************************************************)
(* Properties of _compute_CAGR, under SpecCAGR                             *)
(***************************************************************************)
SameValue == cagr_args.first_value = cagr_args.last_value

IsFlatSeries ==
    /\ DOMAIN cagr_result = cagr_args.first_year..cagr_args.last_year
    /\ \A year \in DOMAIN cagr_result : cagr_result[year] = cagr_args.first_value

\* C9 as stated: for all anchor_year <= target_year and every value v,
\* _compute_CAGR(anchor_year, v, target_year, v) is the flat series of
\* target_year - anchor_year + 1 entries indexed anchor_year..target_year,
\* each equal to v.
C9_FlatFromAnchorLeqTarget ==
    (pc = "done" /\ SameValue /\ cagr_args.first_year <= cagr_args.last_year)
        => IsFlatSeries

\* C9 amended: the flat series is returned for anchor_year < target_year; for
\* anchor_year = target_year (period 0) the series returned is empty.
C9_FlatFromAnchorBeforeTarget ==
    (pc = "done" /\ SameValue)
        => /\ cagr_args.first_year < cagr_args.last_year => IsFlatSeries
           /\ cagr_args.first_year >= cagr_args.last_year => cagr_result = EmptySeries

C9_Witness ==
    /\ pc = "done" /\ SameValue
    /\ cagr_args.first_value > 0
    /\ cagr_args.last_year = cagr_args.first_year + Horizon
    /\ Cardinality(DOMAIN cagr_result) = Horizon + 1

\* C10: for period > 0, anchor value > 0 and target value < anchor value the
\* series is indexed anchor_year..target_year, equals the anchor value at
\* anchor_year and the target value at target_year (geometric and blended
\* branch, target value 0 included), and decreases over the years between:
\* at the resolution of this module no year's value exceeds the year before,
\* and the last is below the first.
C10_AnchoredDecreasing ==
    (/\ pc = "done"
     /\ cagr_args.last_year > cagr_args.first_year
     /\ cagr_args.first_value > 0
     /\ cagr_args.last_value < cagr_args.first_value)
        => /\ DOMAIN cagr_result = cagr_args.first_year..cagr_args.last_year
           /\ cagr_result[cagr_args.first_year] = cagr_args.first_value
           /\ cagr_result[cagr_args.last_year] = cagr_args.last_value
           /\ \A year \in cagr_args.first_year..(cagr_args.last_year - 1) :
                 /\ cagr_result[year + 1] <= cagr_result[year]
                 /\ cagr_result[year + 1] >= cagr_args.last_value

\* the blended branch over the longest period, down to 0
C10_Witness ==
    /\ pc = "done"
    /\ cagr_args.first_value = 20 /\ cagr_args.last_value = 0
    /\ cagr_args.last_year - cagr_args.first_year = Horizon + 2
    /\ cagr_result[cagr_args.last_year] = 0
    /\ cagr_result[cagr_args.first_year + 1] < 20
    /\ cagr_result[cagr_args.first_year + 1] > cagr_result[cagr_args.last_year - 1]

(***************************************************************************)
(* Properties of project_ei_targets, under Spec                            *)
(***************************************************************************)
\* the calls that returned
Returned == {k \in 1..Len(results) : results[k].err = "none"}

\* the years of a curve, in the order of its entries
YearsOf(curve) == [k \in 1..Len(curve.projections) |-> curve.projections[k].year]

HorizonYears == [k \in 1..(Horizon + 1) |-> BASE_YEAR + k - 1]

\* the targets of a scope on the company record
ScopeTargets(scope_name) ==
    {k \in 1..Len(company.target_data) :
        company.target_data[k].target_scope = scope_name}

LastTargetEnd(scope_name) ==
    SetMax({company.target_data[k].target_end_year : k \in ScopeTargets(scope_name)})

\* the last commitment year of a scope in call k: the last target end year
\* or the net-zero year
LastCommitment(k, scope_name) ==
    Max(IF ScopeTargets(scope_name) = {} THEN 0 ELSE LastTargetEnd(scope_name),
        results[k].nz[scope_name])

ValuesAt(curve, year) ==
    {curve.projections[i].value : i \in {j \in 1..Len(curve.projections) :
                                            curve.projections[j].year = year}}

\* C2 as stated: every non-empty curve returned has exactly the years
\* BASE_YEAR..TARGET_YEAR, in increasing order, each once; the years after the
\* last commitment carry the value of the last commitment year.
C2_CurveSpansHorizon ==
    \A k \in Returned : \A s \in Scopes :
        (results[k].eps[s].set /\ results[k].eps[s].projections # << >>)
            => /\ YearsOf(results[k].eps[s]) = HorizonYears
               /\ \A i \in 1..Len(results[k].eps[s].projections) :
                     LET entry == results[k].eps[s].projections[i]
                     IN  (LastCommitment(k, s) >= BASE_YEAR
                          /\ entry.year > LastCommitment(k, s))
                            => entry.value \in ValuesAt(results[k].eps[s],
                                                        LastCommitment(k, s))

\* a curve that runs past TARGET_YEAR
C2_Witness ==
    \E k \in Returned : \E s \in Scopes :
        /\ results[k].eps[s].set
        /\ \E i \in 1..Len(results[k].eps[s].projections) :
              results[k].eps[s].projections[i].year > TARGET_YEAR

\* C4 as stated: a second call on the same company record, production
\* projection and benchmark returns the projection set the first call returned.
C4_SecondCallSame ==
    (Len(results) = 2 /\ results[1].err = "none")
        => (results[2].err = "none" /\ results[2].eps = results[1].eps)

\* both calls return and the net-zero segment of a scope differs
C4_Witness ==
    /\ Len(results) = 2
    /\ results[1].err = "none" /\ results[2].err = "none"
    /\ \E s \in Scopes : /\ results[1].eps[s].set /\ results[2].eps[s].set
                         /\ YearsOf(results[1].eps[s]) = HorizonYears
                         /\ YearsOf(results[2].eps[s]) = HorizonYears
                         /\ results[1].eps[s] # results[2].eps[s]

\* the scopes with an explicit target whose net-zero year in call k is later
\* than the last target end year and within the horizon
NetZeroAfterTargets(k, s) ==
    /\ ScopeTargets(s) # {}
    /\ results[k].nz[s] # NoYear
    /\ results[k].nz[s] > LastTargetEnd(s)
    /\ results[k].nz[s] <= TARGET_YEAR

\* the curve is 0 at the net-zero year and in every later year to TARGET_YEAR
ZeroFromNetZero(k, s) ==
    /\ results[k].eps[s].set
    /\ \A year \in results[k].nz[s]..TARGET_YEAR :
          ValuesAt(results[k].eps[s], year) = {0}

LastDisclosedYear(s) ==
    IF ~company.historic_data.set THEN 0
    ELSE SetMax({0} \cup
            {r.year : r \in {company.historic_data.emissions_intensities[s][i] :
                                i \in 1..Len(company.historic_data.emissions_intensities[s])}}
            \cup
            {r.year : r \in {company.historic_data.emissions[s][i] :
                                i \in 1..Len(company.historic_data.emissions[s])}})

AllUndisclosed(s) ==
    /\ company.historic_data.set
    /\ company.historic_data.emissions_intensities[s] # << >>
    /\ LastValid(company.historic_data.emissions_intensities[s]) = 0

ProjectionFails(c) ==
    /\ c.has_target_data
    /\ \/ ~c.historic_data.set
       \/ (<<c.sector, c.region>> \notin ProductionRows
           /\ <<c.sector, "Global">> \notin ProductionRows)
       \/ project_ei_targets(c, FlatProduction,
                             [set |-> FALSE, S2 |-> EmptySeries]).err # "none"

\* C1 as stated: when the call is over it has not raised, every company has
\* been processed (has a target projection set), and a company whose
\* projection failed has the empty projection set.
C1_FailureIsolated ==
    pc = "done"
        => /\ batch_err = "none"
           /\ \A i \in 1..Len(_companies) :
                 /\ _companies[i].projected_targets.set
                 /\ ProjectionFails(_companies[i])
                       => _companies[i].projected_targets = EmptyProjectionsScopes

\* the call raised at a company and left a later company without projection
C1_Witness ==
    /\ pc = "done"
    /\ batch_err = "KeyError"
    /\ Len(_companies) = 2
    /\ ~_companies[1].projected_targets.set
    /\ ~_companies[2].projected_targets.set
    /\ ~ProjectionFails(_companies[2])

(***************************************************************************)
(* Properties of the trajectory projection, under SpecTraj                 *)
(***************************************************************************)
Projected == op = "project_ei_trajectories" /\ traj_err = "none"

\* C3 as stated: every trajectory curve attached by project_ei_trajectories
\* has exactly one entry for each year BASE_YEAR..TARGET_YEAR, in increasing
\* order, and none outside, whatever years the companies disclosed.
C3_TrajectorySpansHorizon ==
    Projected =>
        \A i \in 1..Len(companies) : \A s \in Scopes :
            companies[i].projected_intensities.scopes[s].set
                => YearsOf(companies[i].projected_intensities.scopes[s]) = HorizonYears

\* a curve attached without an entry for BASE_YEAR
C3_Witness ==
    /\ Projected
    /\ \E i \in 1..Len(companies) :
          /\ companies[i].projected_intensities.scopes["S1S2"].set
          /\ ValuesAt(companies[i].projected_intensities.scopes["S1S2"], BASE_YEAR) = {}
          /\ ValuesAt(companies[i].projected_intensities.scopes["S1S2"], TARGET_YEAR) # {}

\* the companies of the batch with disclosed projections and no historic data
ProjectionsOnly ==
    {i \in 1..Len(given) : /\ given[i].projected_intensities.set
                           /\ ~given[i].historic_data.set}

Validated == op = "_validate_projected_trajectories" /\ traj_err = "none"

\* the curves of company i hold the year/value pairs they were given with
SamePairs(i) ==
    /\ companies[i].projected_intensities = given[i].projected_intensities
    /\ companies[i].ei_metric = given[i].ei_metric

\* C5 as stated: a company with disclosed projections and no historic data
\* leaves _validate_projected_trajectories with the year/value pairs of its
\* projected intensities and with its historic data as they were.
C5_RecordUnmodified ==
    Validated =>
        \A i \in ProjectionsOnly :
            /\ SamePairs(i)
            /\ companies[i].historic_data = given[i].historic_data

\* the curves of company i are the quantities they were given as: the same
\* years, and the same values once both are in the benchmark's unit (or in
\* the unit given, when that does not convert)
SameQuantities(i) ==
    LET InBenchmarkMetric(c, v) ==
            IF ConversionFactor(c.ei_metric) = 0 THEN v
            ELSE QMul(v, ConversionFactor(c.ei_metric))
    IN  \A s \in Scopes :
            LET was == given[i].projected_intensities.scopes[s]
                is == companies[i].projected_intensities.scopes[s]
            IN  /\ is.set = was.set
                /\ YearsOf(is) = YearsOf(was)
                /\ \A k \in 1..Len(was.projections) :
                      InBenchmarkMetric(companies[i], is.projections[k].value)
                          = InBenchmarkMetric(given[i], was.projections[k].value)

\* historic data of company i made of its BASE_YEAR projections
BaseYearHistory(i) ==
    LET h == companies[i].historic_data
    IN  /\ h.set
        /\ h.productions = <<Proj(BASE_YEAR, given[i].base_year_production)>>
        /\ \A s \in Scopes :
              LET was == given[i].projected_intensities.scopes[s]
                  at_base == ValuesAt(was, BASE_YEAR)
              IN  IF was.set
                  THEN /\ {r.value : r \in {h.emissions_intensities[s][k] :
                                k \in 1..Len(h.emissions_intensities[s])}} = at_base
                       /\ {r.value : r \in {h.emissions[s][k] :
                                k \in 1..Len(h.emissions[s])}}
                            = {v * given[i].base_year_production : v \in at_base}
                  ELSE h.emissions_intensities[s] = << >> /\ h.emissions[s] = << >>

\* C5 amended: such a company keeps its projected intensities as quantities
\* (converted to the benchmark's unit where the units convert), and is given
\* historic data: production, intensities and emissions of BASE_YEAR taken
\* from its projections and base-year production.
C5_ProjectionsKeptHistorySynthesized ==
    Validated =>
        \A i \in ProjectionsOnly : SameQuantities(i) /\ BaseYearHistory(i)

\* a company with projections only went through, together with a company
\* that was projected, and its intensities were converted
C5_Witness ==
    /\ Validated
    /\ \E i \in ProjectionsOnly :
          /\ BaseYearHistory(i)
          /\ companies[i].ei_metric # given[i].ei_metric
          /\ \E j \in 1..Len(given) :
                /\ ~given[j].projected_intensities.set
                /\ companies[j].projected_intensities.set

\* the scope of the company can be resolved: an intensity series, or
\* emissions of the scope and production
Resolvable(c, s) ==
    /\ c.historic_data.set
    /\ \/ c.historic_data.emissions_intensities[s] # << >>
       \/ (c.historic_data.emissions[s] # << >> /\ c.historic_data.productions # << >>)

Unresolved == {i \in 1..Len(given) : \A s \in Scopes : ~Resolvable(given[i], s)}

\* no company has any historic record
NoRecords == \A i \in 1..Len(given) : CompanyRecords(given[i]) = << >>

Listed == {missing_data[k] : k \in 1..Len(missing_data)}

IntensitiesUntouched ==
    \A i \in 1..Len(given) :
        companies[i].projected_intensities = given[i].projected_intensities

Derivable(i, s) ==
    /\ given[i].historic_data.set
    /\ given[i].historic_data.emissions_intensities[s] = << >>
    /\ given[i].historic_data.emissions[s] # << >>
    /\ given[i].historic_data.productions # << >>

\* C7 as stated: a scope without intensity series but with emissions and
\* production gets a non-empty trajectory curve; a scope with neither (and
\* not the sum of two scopes that have curves) gets none.
C7_DerivedScopeProjected ==
    Projected =>
        \A i \in 1..Len(given) : \A s \in Scopes :
            LET curve == companies[i].projected_intensities.scopes[s]
                sum_of == IF s = "S1S2" THEN {"S1", "S2"}
                          ELSE IF s = "S1S2S3" THEN {"S1S2", "S3"} ELSE {}
            IN  /\ Derivable(i, s) => (curve.set /\ curve.projections # << >>)
                /\ (~Resolvable(given[i], s)
                    /\ ~(sum_of # {} /\ \A x \in sum_of :
                            companies[i].projected_intensities.scopes[x].set))
                      => ~curve.set

\* a company whose only scope is derived is left without any curve
C7_Witness ==
    /\ Projected
    /\ \E i \in 1..Len(given) :
          /\ Derivable(i, "S1S2")
          /\ \A s \in Scopes : ~companies[i].projected_intensities.scopes[s].set

(***************************************************************************)
(* Properties of calculate_nz_target_years, under SpecLists                *)
(***************************************************************************)
\* the call of calculate_nz_target_years has returned normally
NzReturned ==
    /\ pc = "done"
    /\ Len(results) = 1
    /\ results[1].call = "calculate_nz_target_years"
    /\ results[1].err = "none"

\* the net-zero years and 100%-reduction end years the targets of a scope state
StatedYears(scope_name) ==
    {company.target_data[k].netzero_year : k \in ScopeTargets(scope_name)}
    \cup {company.target_data[k].target_end_year :
            k \in {i \in ScopeTargets(scope_name) :
                     company.target_data[i].target_reduction_pct.num
                       = company.target_data[i].target_reduction_pct.den}}

\* the earliest of them, NZ_UNSET when the scope states none
Stated(scope_name) == SetMin(StatedYears(scope_name) \cup {NZ_UNSET})

\* S1S2S3 is stated to reach net zero before the year stated for S1S2
AllBeforeS1S2 ==
    /\ Stated("S1S2") < NZ_UNSET
    /\ Stated("S1S2S3") < Stated("S1S2")

\* C11 as stated: when the earliest net-zero year stated for S1S2S3 is
\* earlier than the one stated for S1S2, the returned S1S2 year is the
\* stated S1S2S3 year and the returned S1S2S3 year is not the later S1S2 year
C11_S1S2TightenedToAll ==
    (NzReturned /\ AllBeforeS1S2) =>
        /\ results[1].nz["S1S2"] = Stated("S1S2S3")
        /\ results[1].nz["S1S2S3"] # Stated("S1S2")

\* C11 amended: in that case the returned S1S2 year is the earlier of the
\* stated S1S2S3 year and the later of the years stated for S1 and S2, so
\* it is the S1S2S3 year unless S1 and S2 both state an earlier year; the
\* returned S1S2S3 year is never later than the stated S1S2S3 year
C11_S1S2AtMostAll ==
    (NzReturned /\ AllBeforeS1S2) =>
        /\ results[1].nz["S1S2"]
             = Min(Stated("S1S2S3"), Max(Stated("S1"), Stated("S2")))
        /\ results[1].nz["S1S2S3"] # NoYear
        /\ results[1].nz["S1S2S3"] <= Stated("S1S2S3")

C11_Witness ==
    /\ NzReturned
    /\ AllBeforeS1S2
    /\ Stated("S1") < Stated("S1S2S3")
    /\ Stated("S2") < Stated("S1S2S3")
    /\ results[1].nz["S1S2"] < Stated("S1S2S3")

\* the returned year of a scope is a year, and no later than the given one
NoLaterThan(scope_name, year) ==
    /\ results[1].nz[scope_name] # NoYear
    /\ results[1].nz[scope_name] <= year

OrderReturned ==
    /\ pc = "done"
    /\ Len(results) = 1
    /\ results[1].call = "_order_scope_targets"

\* the positions, in the list passed, of the targets returned
Survivors == {results[1].order[k] : k \in 1..Len(results[1].order)}

SamePair(i, j) ==
    /\ company.target_data[i].target_end_year = company.target_data[j].target_end_year
    /\ company.target_data[i].target_start_year = company.target_data[j].target_start_year

\* strictly increasing end years, one target for each end year of the list,
\* and that one has the latest start year stated for the end year
OnePerEndYearLatestStart ==
    /\ \A k \in 1..(Len(results[1].order) - 1) :
          company.target_data[results[1].order[k]].target_end_year
            < company.target_data[results[1].order[k + 1]].target_end_year
    /\ {company.target_data[i].target_end_year : i \in Survivors}
         = {company.target_data[i].target_end_year : i \in 1..Len(company.target_data)}
    /\ \A i \in Survivors : \A j \in 1..Len(company.target_data) :
          company.target_data[j].target_end_year = company.target_data[i].target_end_year
            => company.target_data[j].target_start_year
                 <= company.target_data[i].target_start_year

\* C13 as stated: the targets come back in strictly increasing end-year
\* order, one for each end year, the one with the latest start year, and of
\* the targets with the same end year and start year the last of the list
C13_LastOfPairSurvives ==
    OrderReturned =>
        /\ OnePerEndYearLatestStart
        /\ \A i \in Survivors : \A j \in 1..Len(company.target_data) :
              SamePair(i, j) => j <= i

\* C13 amended: as above, but of the targets with the same end year and
\* start year the first of the list is the one returned
C13_FirstOfPairSurvives ==
    OrderReturned =>
        /\ OnePerEndYearLatestStart
        /\ \A i \in Survivors : \A j \in 1..Len(company.target_data) :
              SamePair(i, j) => i <= j

C13_Witness ==
    /\ OrderReturned
    /\ Len(results[1].order) = 2
    /\ \E i \in Survivors : \E j \in 1..Len(company.target_data) :
          /\ i < j
          /\ SamePair(i, j)
    /\ \E i \in Survivors : \E j \in 1..Len(company.target_data) :
          /\ company.target_data[j].target_end_year = company.target_data[i].target_end_year
          /\ company.target_data[j].target_start_year < company.target_data[i].target_start_year

(***************************************************************************)
(* Properties of the loop over the pending targets, under SpecPending      *)
(***************************************************************************)
PendingReturned ==
    /\ pc = "done"
    /\ Len(results) = 1
    /\ results[1].call = "project_ei_targets"

\* the first pending intensity target and the first pending absolute target
\* have the same end year
PendingTie ==
    /\ results[1].scope_targets_intensity # << >>
    /\ results[1].scope_targets_absolute # << >>
    /\ results[1].scope_targets_intensity[1].target_end_year
         = results[1].scope_targets_absolute[1].target_end_year

PendingSameStart ==
    results[1].scope_targets_intensity[1].target_start_year
      = results[1].scope_targets_absolute[1].target_start_year

\* the first target projected is target; other is never projected
ProjectedNotOther(target, other) ==
    /\ results[1].projected # << >>
    /\ results[1].projected[1] = target
    /\ \A k \in 1..Len(results[1].projected) : results[1].projected[k] # other

\* the loop ends as it does when the absolute target was never stated
AsWithoutAbsolute(ls) ==
    /\ results[1].err = ls.err
    /\ results[1].eps = ls.eps
    /\ results[1].projected = ls.projected

\* C14: when the pending intensity target and the pending absolute target
\* have the same end year and the same start year, a warning is recorded,
\* the intensity target is projected, the absolute one is discarded and the
\* loop goes on as without it; with the same end year and different start
\* years the target with the later start year is projected and the other
\* one is discarded
C14_TieProjectsIntensityOrLaterStart ==
    (PendingReturned /\ PendingTie) =>
        IF PendingSameStart
        THEN /\ results[1].warnings # << >>
             /\ ProjectedNotOther(results[1].scope_targets_intensity[1],
                                  results[1].scope_targets_absolute[1])
             /\ AsWithoutAbsolute(
                    MergeLoop(results[1].scope_targets_intensity,
                              Tail(results[1].scope_targets_absolute),
                              NothingProjected, company, production_proj, "S1S2"))
        ELSE IF results[1].scope_targets_intensity[1].target_start_year
                  > results[1].scope_targets_absolute[1].target_start_year
             THEN ProjectedNotOther(results[1].scope_targets_intensity[1],
                                    results[1].scope_targets_absolute[1])
             ELSE ProjectedNotOther(results[1].scope_targets_absolute[1],
                                    results[1].scope_targets_intensity[1])

C14_Witness ==
    /\ PendingReturned
    /\ PendingTie
    /\ PendingSameStart
    /\ results[1].warnings # << >>
    /\ results[1].err = "none"
    /\ results[1].eps.set
    /\ Len(results[1].eps.projections) > 1

(***************************************************************************)
(* Properties of _add_projections_to_companies, under SpecTraj             *)
(***************************************************************************)
\* the trajectory curve of scope s of company i
Trajectory(i, s) == companies[i].projected_intensities.scopes[s]

\* the series c has the years of a and of b, and for each of them the sum of
\* their values (NaN when one of them is NaN)
IsSumOf(c, a, b) ==
    /\ Len(c) = Len(a)
    /\ Len(c) = Len(b)
    /\ \A k \in 1..Len(c) :
          /\ c[k].year = a[k].year
          /\ c[k].year = b[k].year
          /\ c[k].value = IF a[k].value = NaN \/ b[k].value = NaN THEN NaN
                          ELSE a[k].value + b[k].value

\* the curves of scopes a and b are resolved and scope s has no curve of its
\* own, its intensities not being disclosed
SumOnly(i, s, a, b) ==
    /\ companies[i].projected_intensities.set
    /\ Trajectory(i, a).set
    /\ Trajectory(i, b).set
    /\ given[i].historic_data.emissions_intensities[s] = << >>

\* C15: after project_ei_trajectories, a company with S1 and S2 curves and
\* no S1S2 curve of its own has an S1S2 curve that is S1 + S2 for every year;
\* likewise S1S2S3 is S1S2 + S3 where S1S2S3 has no curve of its own
C15_CompoundIsSum ==
    Projected =>
        \A i \in 1..Len(companies) :
            /\ SumOnly(i, "S1S2", "S1", "S2") =>
                  /\ Trajectory(i, "S1S2").set
                  /\ IsSumOf(Trajectory(i, "S1S2").projections,
                             Trajectory(i, "S1").projections,
                             Trajectory(i, "S2").projections)
            /\ SumOnly(i, "S1S2S3", "S1S2", "S3") =>
                  /\ Trajectory(i, "S1S2S3").set
                  /\ IsSumOf(Trajectory(i, "S1S2S3").projections,
                             Trajectory(i, "S1S2").projections,
                             Trajectory(i, "S3").projections)

\* one company with S1S2 summed from S1 and S2, one with a disclosed S1S2
\* summed with S3
C15_Witness ==
    /\ Projected
    /\ \E i \in 1..Len(companies) :
          /\ SumOnly(i, "S1S2", "S1", "S2")
          /\ SumOnly(i, "S1S2S3", "S1S2", "S3")
          /\ Len(Trajectory(i, "S1S2S3").projections) > 1
    /\ \E i \in 1..Len(companies) :
          /\ given[i].historic_data.emissions_intensities["S1S2"] # << >>
          /\ SumOnly(i, "S1S2S3", "S1S2", "S3")
          /\ \E k \in 1..Len(Trajectory(i, "S1S2S3").projections) :
                Trajectory(i, "S1S2S3").projections[k].value
                  > Trajectory(i, "S1S2").projections[k].value

(***************************************************************************)
(* Properties of the compound scopes of project_ei_targets, under Spec     *)
(***************************************************************************)
\* the constituents of a compound scope
Parts(s) == IF s = "S1S2" THEN <<"S1", "S2">> ELSE <<"S1S2", "S3">>

\* the curves of both constituents are resolved in call k and the compound
\* scope has no target of its own
PartsResolved(k, s) ==
    /\ ScopeTargets(s) = {}
    /\ results[k].eps[Parts(s)[1]].set
    /\ results[k].eps[Parts(s)[2]].set

\* the values of the sum of the constituents' curves for a year
SumsAt(k, s, year) ==
    {IF results[k].eps[Parts(s)[1]].projections[i].value = NaN
        \/ results[k].eps[Parts(s)[2]].projections[i].value = NaN THEN NaN
     ELSE results[k].eps[Parts(s)[1]].projections[i].value
            + results[k].eps[Parts(s)[2]].projections[i].value :
        i \in {j \in 1..Len(results[k].eps[Parts(s)[1]].projections) :
                 results[k].eps[Parts(s)[1]].projections[j].year = year}}

\* C16 as stated: when the S1 and S2 curves resolve and no S1S2 curve comes
\* from S1S2 targets or a net-zero year, the returned S1S2 curve is not empty
\* and is S1 + S2 for every year; likewise S1S2S3 from S1S2 and S3
C16_CompoundBackfilled ==
    \A k \in Returned : \A s \in {"S1S2", "S1S2S3"} :
        (PartsResolved(k, s) /\ results[k].nz[s] = NoYear) =>
            /\ results[k].eps[s].set
            /\ results[k].eps[s].projections # << >>
            /\ IsSumOf(results[k].eps[s].projections,
                       results[k].eps[Parts(s)[1]].projections,
                       results[k].eps[Parts(s)[2]].projections)

\* the last year of the scope's disclosed intensities with a value
LastValidYear(s) ==
    company.historic_data.emissions_intensities[s][
        LastValid(company.historic_data.emissions_intensities[s])].year

\* the compound scope s is projected from its disclosed intensities to a
\* net-zero year that neither constituent exceeds
SummedToNetZero(k, s) ==
    /\ PartsResolved(k, s)
    /\ company.historic_data.set
    /\ LastValid(company.historic_data.emissions_intensities[s]) > 0
    /\ results[k].nz[s] # NoYear
    /\ results[k].nz[s] > LastValidYear(s)
    /\ results[k].nz[Parts(s)[1]] <= results[k].nz[s]
    /\ results[k].nz[Parts(s)[2]] <= results[k].nz[s]

\* C16 amended: a compound scope without targets of its own is given a
\* curve only when it has a net-zero year and the company has historic
\* data; it is then the sum of its constituents' curves for the years after
\* its last disclosed intensity up to the net-zero year, provided neither
\* constituent reaches net zero later
C16_CompoundSummedToNetZero ==
    \A k \in Returned : \A s \in {"S1S2", "S1S2S3"} :
        /\ (ScopeTargets(s) = {} /\ results[k].eps[s].set) =>
              /\ results[k].nz[s] # NoYear
              /\ company.historic_data.set
        /\ SummedToNetZero(k, s) =>
              /\ results[k].eps[s].set
              /\ \A year \in (LastValidYear(s) + 1)..results[k].nz[s] :
                    ValuesAt(results[k].eps[s], year) = SumsAt(k, s, year)

\* an S1S2 curve summed from S1 and S2 above zero in some year
C16_Witness ==
    \E k \in Returned :
        /\ SummedToNetZero(k, "S1S2")
        /\ \E year \in (LastValidYear("S1S2") + 1)..results[k].nz["S1S2"] :
              \E v \in ValuesAt(results[k].eps["S1S2"], year) : v > 0

(***************************************************************************)
(* Properties of the benchmark providers, under SpecBenchmarks             *)
(***************************************************************************)
LookupReturned(call) ==
    /\ pc = "done"
    /\ benchmark_df.call = call
    /\ benchmark_df.err = "none"

\* the row of the companies handed in that a returned row belongs to
CompanyOf(row) == company_info_at_base_year[row.company_id]

\* the intensity benchmark of a company: that of its region, else Global
IntensityBenchmarkOf(c) ==
    IF <<c.sector, c.region, c.scope>> \in DOMAIN _EI_df
    THEN _EI_df[<<c.sector, c.region, c.scope>>]
    ELSE _EI_df[<<c.sector, "Global", c.scope>>]

\* C17 as stated: every path returned by get_SDA_intensity_benchmarks is
\* d(y) * (company base-year intensity - benchmark(TARGET_YEAR))
\* + benchmark(TARGET_YEAR), d being the normalized benchmark path: it is
\* the company's own base-year intensity at BASE_YEAR and the benchmark
\* intensity at TARGET_YEAR
C17_PathAnchoredAtCompanyBaseEI ==
    LookupReturned("get_SDA_intensity_benchmarks") =>
        \A k \in DOMAIN benchmark_df.rows :
            /\ benchmark_df.rows[k].projections[BASE_YEAR]
                 = CompanyOf(benchmark_df.rows[k]).base_ei
            /\ benchmark_df.rows[k].projections[TARGET_YEAR]
                 = IntensityBenchmarkOf(CompanyOf(benchmark_df.rows[k]))[TARGET_YEAR]
            /\ \A year \in BASE_YEAR..TARGET_YEAR :
                  (benchmark_df.rows[k].projections[year]
                     - IntensityBenchmarkOf(CompanyOf(benchmark_df.rows[k]))[TARGET_YEAR])
                  * (IntensityBenchmarkOf(CompanyOf(benchmark_df.rows[k]))[BASE_YEAR]
                     - IntensityBenchmarkOf(CompanyOf(benchmark_df.rows[k]))[TARGET_YEAR])
                  = (IntensityBenchmarkOf(CompanyOf(benchmark_df.rows[k]))[year]
                     - IntensityBenchmarkOf(CompanyOf(benchmark_df.rows[k]))[TARGET_YEAR])
                    * (CompanyOf(benchmark_df.rows[k]).base_ei
                       - IntensityBenchmarkOf(CompanyOf(benchmark_df.rows[k]))[TARGET_YEAR])

\* a path that starts at the benchmark's base-year intensity, not at the
\* company's
C17_Witness ==
    /\ LookupReturned("get_SDA_intensity_benchmarks")
    /\ \E k \in DOMAIN benchmark_df.rows :
          /\ benchmark_df.rows[k].projections[BASE_YEAR]
               = IntensityBenchmarkOf(CompanyOf(benchmark_df.rows[k]))[BASE_YEAR]
          /\ benchmark_df.rows[k].projections[BASE_YEAR]
               # CompanyOf(benchmark_df.rows[k]).base_ei
          /\ benchmark_df.rows[k].projections[TARGET_YEAR]
               = IntensityBenchmarkOf(CompanyOf(benchmark_df.rows[k]))[TARGET_YEAR]

\* the production benchmark has been constructed
Constructed == pc \in {"call", "done"}

\* index[y + 1] = index[y] * (1 + delta[y + 1]) for every year after the
\* first, the fractions compared numerator by numerator over a denominator
\* that is a power of DeltaScale
Compounds(key) ==
    \A year \in (BASE_YEAR + 1)..TARGET_YEAR :
        /\ _prod_df[key][year].num
             = _prod_df[key][year - 1].num * (DeltaScale + _prod_delta_df[key][year])
        /\ _prod_df[key][year].den = _prod_df[key][year - 1].den * DeltaScale

CurvesOf(i) ==
    {benchmark_df.rows[k].projections :
        k \in {j \in DOMAIN benchmark_df.rows : benchmark_df.rows[j].company_id = i}}

\* the key of company i in the table the lookup reads, for a region
KeyOf(i, region) ==
    IF benchmark_df.call = "get_benchmark_projections"
    THEN <<company_info_at_base_year[i].sector, region>>
    ELSE <<company_info_at_base_year[i].sector, region,
           company_info_at_base_year[i].scope>>

TableRead ==
    IF benchmark_df.call = "get_benchmark_projections" THEN _prod_df ELSE _EI_df

HasOwnCurve(i) == KeyOf(i, company_info_at_base_year[i].region) \in DOMAIN TableRead

FallsBackToGlobal(i) ==
    /\ ~HasOwnCurve(i)
    /\ KeyOf(i, "Global") \in DOMAIN TableRead

\* C19: in get_benchmark_projections and in _get_intensity_benchmarks, a
\* company whose region has no curve for its sector while the sector has a
\* Global curve makes the lookup return that Global curve for it, without
\* raising; a company whose (sector, region) has a curve gets exactly that
\* curve from every call that returns, whichever way the other companies of
\* the call are resolved
C19_GlobalFallback ==
    (/\ pc = "done"
     /\ benchmark_df.call \in {"get_benchmark_projections", "_get_intensity_benchmarks"}) =>
        \A i \in DOMAIN company_info_at_base_year :
            /\ FallsBackToGlobal(i) =>
                  /\ benchmark_df.err = "none"
                  /\ CurvesOf(i) = {TableRead[KeyOf(i, "Global")]}
            /\ (HasOwnCurve(i) /\ benchmark_df.err = "none") =>
                  CurvesOf(i) = {TableRead[KeyOf(i, company_info_at_base_year[i].region)]}

\* one call of the intensity lookup in which a company falls back to Global
\* and another one has the curve of its region
C19_Witness ==
    /\ LookupReturned("_get_intensity_benchmarks")
    /\ \E i, j \in DOMAIN company_info_at_base_year :
          /\ FallsBackToGlobal(i)
          /\ HasOwnCurve(j)
          /\ CurvesOf(i) # {}
          /\ CurvesOf(j) # {}
          /\ CurvesOf(i) # CurvesOf(j)

\* the same in a call of the production lookup
C19_WitnessProduction ==
    /\ LookupReturned("get_benchmark_projections")
    /\ \E i, j \in DOMAIN company_info_at_base_year :
          /\ FallsBackToGlobal(i)
          /\ HasOwnCurve(j)
          /\ CurvesOf(i) # CurvesOf(j)

(***************************************************************************)
(* Properties of _winsorize and _get_trends, under SpecWinsorize           *)
(***************************************************************************)
Rewinsorized == pc \in {"rewinsorized", "done"}

\* the values of a column that are not NaN, in increasing order
Known(col) == SortValues(SelectSeq(col, LAMBDA v : ~isnan(v)))

\* the two smallest known values of a column coincide, and so do the two
\* largest (a column of at most one known value has both)
ExtremesRepeated(col) ==
    \/ Len(Known(col)) <= 1
    \/ /\ Known(col)[1] = Known(col)[2]
       /\ Known(col)[Len(Known(col))] = Known(col)[Len(Known(col)) - 1]

\* every known value of inner lies between the extremes of outer, and the
\* two columns are NaN in the same years
Within(inner, outer) ==
    /\ Len(inner) = Len(outer)
    /\ \A k \in 1..Len(inner) :
          /\ isnan(inner[k]) <=> isnan(outer[k])
          /\ ~isnan(inner[k]) =>
                /\ inner[k] >= Known(outer)[1]
                /\ inner[k] <= Known(outer)[Len(Known(outer))]

Derived == pc = "done" /\ historic_df.call = "_compute_missing_historic_ei"

EiKey(i, s) == <<i, EMISSIONS_INTENSITIES, s>>

EmissionsKey(i, s) == <<i, EMISSIONS, s>>

ProductionKey(i) == <<i, PRODUCTIONS, "Production">>

\* the company discloses an intensity series for the scope
DisclosesEi(i, s) ==
    /\ given[i].historic_data.set
    /\ given[i].historic_data.emissions_intensities[s] # << >>

\* S1 and S2 intensities disclosed, no S1S2 intensity
OnlyParts(i) ==
    /\ DisclosesEi(i, "S1")
    /\ DisclosesEi(i, "S2")
    /\ ~DisclosesEi(i, "S1S2")

\* the panel has the emissions of the scope and the production of the company
HasEmissionsAndProduction(i, s) ==
    /\ EmissionsKey(i, s) \in DOMAIN historic_df.rows
    /\ ProductionKey(i) \in DOMAIN historic_df.rows

\* the row of the scope's intensities is, year by year, row a + row b
RowIsSum(i, s, a, b) ==
    \A year \in DOMAIN historic_df.rows[EiKey(i, s)] :
        historic_df.rows[EiKey(i, s)][year]
            = QAdd(historic_df.rows[EiKey(i, a)][year],
                   historic_df.rows[EiKey(i, b)][year])

\* the row of the scope's intensities is, year by year, emissions / production
RowIsQuotient(i, s) ==
    \A year \in DOMAIN historic_df.rows[EiKey(i, s)] :
        historic_df.rows[EiKey(i, s)][year]
            = QDiv(historic_df.rows[EmissionsKey(i, s)][year],
                   historic_df.rows[ProductionKey(i)][year])

\* C21 as stated: after _compute_missing_historic_ei, a company with S1 and
\* S2 intensity series and no S1S2 intensity series has an S1S2 intensity row
\* in the panel, and it is intensity[S1] + intensity[S2].
C21_S1S2DerivedAsSum ==
    Derived =>
        \A i \in 1..Len(given) :
            OnlyParts(i) =>
                /\ EiKey(i, "S1S2") \in DOMAIN historic_df.rows
                /\ RowIsSum(i, "S1S2", "S1", "S2")

\* C21 amended: for such a company the panel has an S1S2 intensity row
\* exactly when it has the company's S1S2 emissions and its production, and
\* the row is then emissions[S1S2] / production; the S1 and S2 intensities
\* are not used, and without S1S2 emissions S1S2 stays unresolved.
C21_S1S2DerivedFromEmissionsOnly ==
    Derived =>
        \A i \in 1..Len(given) :
            OnlyParts(i) =>
                /\ EiKey(i, "S1S2") \in DOMAIN historic_df.rows
                      <=> HasEmissionsAndProduction(i, "S1S2")
                /\ HasEmissionsAndProduction(i, "S1S2") => RowIsQuotient(i, "S1S2")

\* a batch of one company whose S1S2 row is emissions / production and not
\* the sum, and one that has S1 and S2 rows and no S1S2 row, without error
C21_Witness ==
    /\ Derived
    /\ historic_df.err = "none"
    /\ \E i \in 1..Len(given) :
          /\ OnlyParts(i)
          /\ EiKey(i, "S1S2") \in DOMAIN historic_df.rows
          /\ ~RowIsSum(i, "S1S2", "S1", "S2")
    /\ \E i \in 1..Len(given) :
          /\ OnlyParts(i)
          /\ EiKey(i, "S1S2") \notin DOMAIN historic_df.rows

\* C22: after _compute_missing_historic_ei, the panel row of every disclosed
\* intensity series is the row _extract_historic_df built from it, also
\* where emissions / production would give other values.
C22_DisclosedIntensityKept ==
    Derived =>
        \A before \in {_extract_historic_df(given)} :
            \A i \in 1..Len(given), s \in Scopes :
                DisclosesEi(i, s) =>
                    /\ EiKey(i, s) \in DOMAIN historic_df.rows
                    /\ historic_df.rows[EiKey(i, s)] = before.rows[EiKey(i, s)]

\* a company with a disclosed intensity series of a scope whose emissions
\* over production differ from it
C22_Witness ==
    /\ Derived
    /\ \E i \in 1..Len(given), s \in Scopes :
          /\ DisclosesEi(i, s)
          /\ HasEmissionsAndProduction(i, s)
          /\ ~RowIsQuotient(i, s)


(***************************************************************************)
(* Properties of the anchor of a target, under Spec                        *)
(***************************************************************************)
\* the company states one target only, an absolute one, and not of S1 (for
\* which the call first synthesizes an S2 target from the benchmark)
OneAbsoluteTarget ==
    /\ Len(company.target_data) = 1
    /\ company.target_data[1].target_type = "absolute"
    /\ company.target_data[1].target_scope # "S1"

\* the scopes for which the company states an absolute target
AbsoluteScopes ==
    {company.target_data[k].target_scope :
        k \in {j \in 1..Len(company.target_data) :
                  company.target_data[j].target_type = "absolute"}}

\* no historic emissions of the scope at all
NoEmissions(s) ==
    \/ ~company.historic_data.set
    \/ company.historic_data.emissions[s] = << >>

\* historic emissions of the scope, every one of them NaN
OnlyNaNEmissions(s) ==
    /\ ~NoEmissions(s)
    /\ LastValid(company.historic_data.emissions[s]) = 0

AnchorRealizations(target) ==
    IF ~company.historic_data.set THEN << >>
    ELSE IF target.target_type = "intensity"
    THEN company.historic_data.emissions_intensities[target.target_scope]
    ELSE company.historic_data.emissions[target.target_scope]

\* the value of the anchor in the target's own terms: an intensity for an
\* intensity target, emissions for an absolute one
AnchorValue(k) ==
    IF results[1].projected[k].target_type = "intensity"
    THEN results[1].anchors[k].last_ei_value
    ELSE results[1].anchors[k].last_em_value

\* the anchor is the last entry of the curve projected so far
AtTailOfCurve(k) ==
    LET a == results[1].anchors[k]
        tail == a.curve.projections[Len(a.curve.projections)]
    IN  /\ a.last_ei_year = tail.year
        /\ a.last_ei_value = tail.value
        /\ a.first_year = tail.year + 1

\* the anchor is the most recent realization that is not NaN
AtLastRealization(k) ==
    LET realizations == AnchorRealizations(results[1].projected[k])
    IN  \E i \in 1..Len(realizations) :
            /\ ~isnan(realizations[i].value)
            /\ \A j \in (i + 1)..Len(realizations) : isnan(realizations[j].value)
            /\ results[1].anchors[k].last_ei_year = realizations[i].year
            /\ AnchorValue(k) = realizations[i].value

\* the anchor is the target's base year and base-year quantity
AtOwnBase(k) ==
    /\ results[1].anchors[k].last_ei_year = results[1].projected[k].target_base_year
    /\ AnchorValue(k) = results[1].projected[k].target_base_year_qty

\* the years of the curve go up one by one
Consecutive(curve) ==
    \A j \in 1..(Len(curve.projections) - 1) :
        curve.projections[j + 1].year = curve.projections[j].year + 1

\* C24: every target processed without error was anchored at the last entry
\* of the curve already projected for the scope when there was one, its
\* segment starting the year after; otherwise at the most recent historic
\* realization that is not NaN; otherwise, without historic realizations, at
\* its own base year and base-year quantity; and the years of the curve
\* returned go up one by one, without overlap or gap.
C24_AnchorsAndSegmentsChain ==
    PendingReturned =>
        /\ \A k \in 1..Len(results[1].anchors) :
              IF results[1].anchors[k].curve.set THEN AtTailOfCurve(k)
              ELSE IF AnchorRealizations(results[1].projected[k]) = << >>
              THEN AtOwnBase(k)
              ELSE AtLastRealization(k)
        /\ results[1].err = "none" => Consecutive(results[1].eps)

\* every historic realization the anchor is looked for in is NaN
OnlyNaNRealizations(k) ==
    /\ AnchorRealizations(results[1].projected[k]) # << >>
    /\ \A i \in 1..Len(AnchorRealizations(results[1].projected[k])) :
          isnan(AnchorRealizations(results[1].projected[k])[i].value)

\* the anchor is the year of the earliest realization, with the value NaN
AtFirstRealizationNaN(k) ==
    /\ results[1].anchors[k].last_ei_year
          = AnchorRealizations(results[1].projected[k])[1].year
    /\ isnan(AnchorValue(k))

\* what holds instead: the three anchors of C24 and the chaining of the
\* segments, with a fourth anchor when every realization is NaN
C24_ChainUnlessOnlyNaN ==
    PendingReturned =>
        /\ \A k \in 1..Len(results[1].anchors) :
              IF results[1].anchors[k].curve.set THEN AtTailOfCurve(k)
              ELSE IF AnchorRealizations(results[1].projected[k]) = << >>
              THEN AtOwnBase(k)
              ELSE IF OnlyNaNRealizations(k) THEN AtFirstRealizationNaN(k)
              ELSE AtLastRealization(k)
        /\ results[1].err = "none" => Consecutive(results[1].eps)

\* an intensity target processed without error for a company whose
\* intensities of the scope are all NaN: the anchor is NaN and so is every
\* year of the curve returned
C24_Witness ==
    /\ PendingReturned
    /\ results[1].err = "none"
    /\ Len(results[1].anchors) = 1
    /\ results[1].projected[1].target_type = "intensity"
    /\ OnlyNaNRealizations(1)
    /\ AtFirstRealizationNaN(1)
    /\ results[1].eps.set
    /\ \A j \in 1..Len(results[1].eps.projections) :
          isnan(results[1].eps.projections[j].value)

\* two targets processed without error, the first anchored in the history,
\* the second one at the end of the first one's segment, which it extends
C24_WitnessChained ==
    /\ PendingReturned
    /\ results[1].err = "none"
    /\ Len(results[1].anchors) = 2
    /\ ~results[1].anchors[1].curve.set
    /\ AnchorRealizations(results[1].projected[1]) # << >>
    /\ results[1].anchors[2].curve.set
    /\ Len(results[1].eps.projections) > Len(results[1].anchors[2].curve.projections)

\* two targets processed without error for a company without history
C24_WitnessOwnBase ==
    /\ PendingReturned
    /\ results[1].err = "none"
    /\ Len(results[1].anchors) = 2
    /\ ~results[1].anchors[1].curve.set
    /\ AnchorRealizations(results[1].projected[1]) = << >>
    /\ results[1].anchors[2].curve.set
    /\ Len(results[1].eps.projections) > Len(results[1].anchors[2].curve.projections)


(***************************************************************************)
(* Properties of _extrapolate and _get_trends, under SpecWinsorize         *)
(***************************************************************************)
Extrapolated == pc = "extrapolated"

\* the years of the column without a value
MissingYears == {k \in 1..Len(historic_intensities) : isnan(historic_intensities[k])}

ValidYears == (1..Len(historic_intensities)) \ MissingYears

\* a missing year with a valid value before it and one after it
InternalGaps ==
    {g \in MissingYears : (\E p \in ValidYears : p < g) /\ (\E q \in ValidYears : q > g)}

\* the valid years are returned as they were
ValidYearsKept ==
    \A k \in ValidYears :
        extrapolated[k] = Proj(HistoricYears[k], historic_intensities[k])

\* C25 as stated: every internal gap g is filled with the last valid value
\* before it, of year p, compounded by the trend over g - p years; valid
\* values are unchanged.
C25_GapFilledFromValueBefore ==
    Extrapolated =>
        /\ ValidYearsKept
        /\ \A g \in InternalGaps :
              extrapolated[g].value
                 = Compound(historic_intensities[SetMax({p \in ValidYears : p < g})],
                            trends[1], g - SetMax({p \in ValidYears : p < g}))

\* C25 amended: every missing year of a column that has a valid value, an
\* internal gap or not, is filled with the last valid value of the whole
\* column compounded by the trend once for each missing year up to and
\* including it; valid values are unchanged.
C25_GapFilledFromLastValueOfColumn ==
    Extrapolated =>
        /\ ValidYearsKept
        /\ ValidYears # {} =>
              \A g \in MissingYears :
                  extrapolated[g].value
                     = Compound(historic_intensities[SetMax(ValidYears)], trends[1],
                                Cardinality({k \in MissingYears : k <= g}))

\* a column with a trend that is neither NaN nor zero and an internal gap
\* filled with another value than the one before it compounded
C25_Witness ==
    /\ Extrapolated
    /\ ~isnan(trends[1])
    /\ trends[1] # 0
    /\ \E g \in InternalGaps :
          /\ ~isnan(extrapolated[g].value)
          /\ extrapolated[g].value
                # Compound(historic_intensities[SetMax({p \in ValidYears : p < g})],
                           trends[1], g - SetMax({p \in ValidYears : p < g}))

\* the rows after the historic ones: the final historic value, as
\* _extrapolate left it, compounded by the trend once for each year
CompoundedFromFinal ==
    /\ Len(extrapolated) = Len(historic_intensities) + Horizon
    /\ \A n \in 1..Horizon :
          extrapolated[Len(historic_intensities) + n]
             = Proj(BASE_YEAR + n,
                    Compound(extrapolated[Len(historic_intensities)].value, trends[1], n))

\* C26 as stated: the trend lies within [LOWER_DELTA, UPPER_DELTA] and the
\* value of every year after the last historic year is the final historic
\* value compounded by the trend, year by year.
C26_TrendBoundedAndCompounded ==
    /\ pc \in {"done", "extrapolated"} =>
          (LOWER_DELTA <= trends[1] /\ trends[1] <= UPPER_DELTA)
    /\ Extrapolated => CompoundedFromFinal

\* the column winsorized has two consecutive years with a value
HasWindow ==
    \E k \in 2..Len(winsorized[1]) :
        ~isnan(winsorized[1][k - 1]) /\ ~isnan(winsorized[1][k])

\* C26 amended: the trend lies within [LOWER_DELTA, UPPER_DELTA] when the
\* column has two consecutive years with a value and is NaN otherwise; the
\* value of every year after the last historic year is the final historic
\* value compounded by the trend, NaN when the trend is.
C26_TrendBoundedOrNaNAndCompounded ==
    /\ pc \in {"done", "extrapolated"} =>
          IF HasWindow
          THEN LOWER_DELTA <= trends[1] /\ trends[1] <= UPPER_DELTA
          ELSE isnan(trends[1])
    /\ Extrapolated =>
          /\ CompoundedFromFinal
          /\ isnan(trends[1]) =>
                \A n \in 1..Horizon :
                    isnan(extrapolated[Len(historic_intensities) + n].value)

\* a column with a falling trend, clipped to the lower bound, extrapolated
\* below its final historic value
C26_Witness ==
    /\ Extrapolated
    /\ HasWindow
    /\ LOWER_DELTA <= trends[1]
    /\ trends[1] < 0
    /\ extrapolated[Len(extrapolated)].value
          < extrapolated[Len(historic_intensities)].value

\* a column of one year, hence without a trend
C26_WitnessNaN == Extrapolated /\ ~HasWindow /\ ValidYears # {} /\ isnan(trends[1])


(***************************************************************************)
(* Properties of _year_on_year_ratio, under SpecRatio                      *)
(***************************************************************************)
\* C27: on a window (a, b) the ratio, in thousandths, is 0 when a = 0 and
\* b = 0, -1 when a >= 0 and b <= 0 and not both are zero, and b / a - 1
\* otherwise (infinite when a = 0); hence it is at least -1 for every
\* window of non-negative values with a > 0.
C27_RatioRules ==
    (pc = "done" /\ ratio # NoValue) =>
        /\ (arr[1] = 0 /\ arr[2] = 0) => ratio = 0
        /\ (arr[1] >= 0 /\ arr[2] <= 0 /\ ~(arr[1] = 0 /\ arr[2] = 0)) => ratio = -1000
        /\ (~(arr[1] >= 0 /\ arr[2] <= 0) /\ arr[1] # 0) =>
              \* floor(1000 * (b / a - 1))
              /\ ratio * arr[1] <= 1000 * (arr[2] - arr[1]) \/ arr[1] < 0
              /\ ratio * arr[1] >= 1000 * (arr[2] - arr[1]) \/ arr[1] > 0
              /\ (ratio + 1) * arr[1] > 1000 * (arr[2] - arr[1]) \/ arr[1] < 0
              /\ (ratio + 1) * arr[1] < 1000 * (arr[2] - arr[1]) \/ arr[1] > 0
        /\ (~(arr[1] >= 0 /\ arr[2] <= 0) /\ arr[1] = 0) => ratio = Infinite
        /\ (arr[1] > 0 /\ arr[2] >= 0) => ratio >= -1000

\* a window that falls from a positive value to a negative one
C27_Witness == pc = "done" /\ arr[1] > 0 /\ arr[2] < 0 /\ ratio = -1000


(***************************************************************************)
(* The compound scopes in the result of calculate_nz_target_years, under   *)
(* SpecLists                                                               *)
(***************************************************************************)
\* the returned year of a scope, None read as later than any year
ReturnedOrLatest(scope_name) ==
    IF results[1].nz[scope_name] = NoYear THEN NZ_UNSET
    ELSE results[1].nz[scope_name]

\* the result gives the scope a net-zero year
HasNzYear(scope_name) == results[1].nz[scope_name] # NoYear

\* C28: in the result of calculate_nz_target_years, reading None as later
\* than any year, the S1S2 year is the later of the S1 and S2 years and the
\* S1S2S3 year the later of the S1S2 and S3 years; a compound scope has a
\* net-zero year exactly when both of its constituents have one
C28_CompoundIsLatestOfParts ==
    NzReturned =>
        /\ ReturnedOrLatest("S1S2")
             = Max(ReturnedOrLatest("S1"), ReturnedOrLatest("S2"))
        /\ ReturnedOrLatest("S1S2S3")
             = Max(ReturnedOrLatest("S1S2"), ReturnedOrLatest("S3"))
        /\ HasNzYear("S1S2") <=> (HasNzYear("S1") /\ HasNzYear("S2"))
        /\ HasNzYear("S1S2S3") <=> (HasNzYear("S1S2") /\ HasNzYear("S3"))

\* no target states a year for S1S2S3, and the result gives it the S3 year,
\* later than the S1S2 year, which is the S2 year, later than the S1 year
C28_Witness ==
    /\ NzReturned
    /\ Stated("S1S2S3") = NZ_UNSET
    /\ \A s \in Scopes : HasNzYear(s)
    /\ results[1].nz["S1"] < results[1].nz["S2"]
    /\ results[1].nz["S1S2"] = results[1].nz["S2"]
    /\ results[1].nz["S1S2"] < results[1].nz["S3"]
    /\ results[1].nz["S1S2S3"] = results[1].nz["S3"]


(***************************************************************************)
(* The passes of the loop over the pending targets, under SpecPending      *)
(***************************************************************************)
\* the targets pending before the first pass, of both types
PendingTargets ==
    {results[1].scope_targets_intensity[k] :
        k \in 1..Len(results[1].scope_targets_intensity)}
    \cup {results[1].scope_targets_absolute[k] :
            k \in 1..Len(results[1].scope_targets_absolute)}

\* the targets the passes popped: selected for projection, or dropped for
\* the selected one with the same end year
Handled == results[1].projected \o results[1].discarded

\* no pending target was popped twice
HandledOnce ==
    /\ \A k \in 1..Len(Handled) : Handled[k] \in PendingTargets
    /\ \A j, k \in 1..Len(Handled) : j # k => Handled[j] # Handled[k]

\* the end years of the selected targets, in the order of the passes
EndYearsIncrease ==
    \A k \in 1..(Len(results[1].projected) - 1) :
        results[1].projected[k].target_end_year
          < results[1].projected[k + 1].target_end_year

\* C29: the loop over the ordered intensity and absolute targets ends for
\* every pair of lists: each pass selects one pending target, so there are
\* no more passes than pending targets; no target is selected or discarded
\* twice, and when the loop runs to its end every pending target was
\* selected or discarded; the end years of the selected targets are
\* strictly increasing
C29_EveryTargetHandledOnce ==
    PendingReturned =>
        /\ Len(results[1].projected) <= Cardinality(PendingTargets)
        /\ Len(results[1].discarded) <= Len(results[1].projected)
        /\ HandledOnce
        /\ results[1].err = "none" =>
              {Handled[k] : k \in 1..Len(Handled)} = PendingTargets
        /\ EndYearsIncrease

\* an intensity target and an absolute target with different end years,
\* both selected, one pass after the other
C29_Witness ==
    /\ PendingReturned
    /\ results[1].err = "none"
    /\ Len(results[1].scope_targets_intensity) = 1
    /\ Len(results[1].scope_targets_absolute) = 1
    /\ Len(results[1].projected) = 2
    /\ results[1].discarded = << >>
    /\ results[1].projected[1].target_end_year
         < results[1].projected[2].target_end_year

\* of two targets with the same end year one is selected and one discarded
C29_WitnessDiscarded ==
    /\ PendingReturned
    /\ results[1].err = "none"
    /\ Len(results[1].projected) = 1
    /\ Len(results[1].discarded) = 1


(***************************************************************************)
(* Properties of _calculate_aggregate_score, under SpecAggregation         *)
(***************************************************************************)
AggregationDone ==
    /\ pc = "done"
    /\ aggregate_score.call = "_calculate_aggregate_score"

\* no row has a null cell in the column
Filled(column) == \A k \in 1..Len(data) : ~isnan(data[k][column])

\* the emissions columns the scopes of the rows ask for are filled
EmissionsFilled ==
    /\ (\E k \in 1..Len(data) : use_S1S2(data[k])) => Filled("ghg_s1s2")
    /\ (\E k \in 1..Len(data) : use_S3(data[k])) => Filled("ghg_s3")

\* the columns the method reads are filled
RequiredFilled ==
    CASE portfolio_aggregation_method = "WATS" -> Filled("investment_value")
      [] portfolio_aggregation_method = "TETS" -> EmissionsFilled
      [] portfolio_aggregation_method = "ECOTS" ->
            /\ Filled("investment_value") /\ EmissionsFilled
            /\ Filled("company_enterprise_value")
            /\ Filled("company_cash_equivalents")
      [] OTHER ->
            /\ Filled("investment_value") /\ EmissionsFilled
            /\ Filled(get_value_column(portfolio_aggregation_method))

\* the emissions of row k its scope counts
CountedEmissions(k) ==
    (IF use_S1S2(data[k]) THEN data[k].ghg_s1s2 ELSE 0)
    + (IF use_S3(data[k]) THEN data[k].ghg_s3 ELSE 0)

\* investment value / company value * emissions, in thousandths
OwnedEmissions(k) ==
    (1000 * data[k].investment_value * CountedEmissions(k))
        \div (IF portfolio_aggregation_method = "ECOTS"
              THEN data[k].company_enterprise_value + data[k].company_cash_equivalents
              ELSE data[k][get_value_column(portfolio_aggregation_method)])

\* the share of row k in the owned emissions times its score
OwnedShareTimesScore(k) ==
    (1000 * OwnedEmissions(k) * data[k].temperature_score)
        \div SumSkipNa([i \in 1..Len(data) |-> OwnedEmissions(i)])

\* C30 as stated: for every member of PortfolioAggregationMethod, with the
\* required columns filled and non-zero totals, the call returns one
\* contribution per company row, for an emissions-based method the
\* company's share of the owned emissions times its score; the call ends
\* in no error but ValueError, and in that only for a missing column value,
\* a zero total or an invalid method
C30_EveryMethodAggregates ==
    AggregationDone =>
        /\ (portfolio_aggregation_method \in PortfolioAggregationMethod /\ RequiredFilled) =>
              /\ aggregate_score.err = "none"
              /\ Len(aggregate_score.values) = Len(data)
              /\ is_emissions_based(portfolio_aggregation_method) =>
                    \A k \in 1..Len(data) :
                        aggregate_score.values[k] = OwnedShareTimesScore(k)
        /\ aggregate_score.err \in {"none", "ValueError"}
        /\ aggregate_score.err = "ValueError" =>
              \/ ~RequiredFilled
              \/ portfolio_aggregation_method \notin PortfolioAggregationMethod

\* what the call does: WATS and TETS return one contribution per row when
\* their columns are filled; an emissions-based method never returns, it
\* ends in ValueError for a null cell and in NameError otherwise
C30_EmissionsBasedEndInNameError ==
    AggregationDone =>
        /\ (portfolio_aggregation_method \in {"WATS", "TETS"} /\ RequiredFilled) =>
              /\ aggregate_score.err = "none"
              /\ Len(aggregate_score.values) = Len(data)
        /\ is_emissions_based(portfolio_aggregation_method) =>
              aggregate_score.err = IF RequiredFilled THEN "NameError" ELSE "ValueError"
        /\ aggregate_score.err = "ValueError" =>
              \/ ~RequiredFilled
              \/ portfolio_aggregation_method \notin PortfolioAggregationMethod

\* two rows with every column filled, aggregated by market value (MOTS):
\* the call ends in NameError
C30_Witness ==
    /\ AggregationDone
    /\ portfolio_aggregation_method = "MOTS"
    /\ Len(data) = 2
    /\ RequiredFilled
    /\ aggregate_score.err = "NameError"
    /\ aggregate_score.values = << >>

\* rows of different weights aggregated by investment value (WATS)
C30_WitnessWATS ==
    /\ AggregationDone
    /\ portfolio_aggregation_method = "WATS"
    /\ aggregate_score.err = "none"
    /\ Len(aggregate_score.values) = 2
    /\ aggregate_score.values[1] < aggregate_score.values[2]

====
